---------------------------- MODULE Spec2Model ----------------------------
(***************************************************************************)
(* NOR_Analysis: the object_id formatter and the Discrimination Index (DI)  *)
(* calculation of src/manual/manual_DI.py (and the twin formatter of        *)
(* src/manual/manual_DI_format.py).                                         *)
(*                                                                         *)
(* Numbers are exact decimals counted in hundredths of a second: the cell   *)
(* 12.5 is Num(1250).  Text is a sequence of one-character strings, so that *)
(* str.startswith, str.strip, the digit filter and float() are computed,    *)
(* not assumed.                                                             *)
(***************************************************************************)
EXTENDS Integers, Sequences, FiniteSets, TLC

(***************************************************************************)
(* Bounds of the model.                                                     *)
(***************************************************************************)
MaxTs == 4          \* longest timestamp series given to calculate_bout_durations
MaxRows == 3        \* most timestamps per object column of a sheet
MaxCols == 7        \* most columns of a table given to layout detection

Max(a, b) == IF a >= b THEN a ELSE b

(***************************************************************************)
(* Cell values: a number, a missing value (NaN / None), or text.            *)
(***************************************************************************)
Num(x) == [k |-> "num", v |-> x, s |-> <<>>]
NaN == [k |-> "nan", v |-> 0, s |-> <<>>]
Str(t) == [k |-> "str", v |-> 0, s |-> t]

isna(c) == c.k = "nan"
notna(c) == ~isna(c)

(***************************************************************************)
(* Text helpers.                                                            *)
(***************************************************************************)
Digits == <<"0", "1", "2", "3", "4", "5", "6", "7", "8", "9">>
Whitespace == {" "}

isdigit(c) == \E i \in 1..Len(Digits) : Digits[i] = c
DigitValue(c) == (CHOOSE i \in 1..Len(Digits) : Digits[i] = c) - 1

startswith(t, prefix) ==
    /\ Len(t) >= Len(prefix)
    /\ SubSeq(t, 1, Len(prefix)) = prefix

\* str(col).strip() == ''
StripsToEmpty(t) == \A i \in 1..Len(t) : t[i] \in Whitespace

EmptyPrefix == <<"e", "m", "p", "t", "y", "_">>

\* f'empty_{k}' as a cell
EmptyLabel(k) == Str(EmptyPrefix \o <<Digits[k + 1]>>)

\* str(col) of a column label: only text labels can start with 'empty_' or be
\* blank; str() of a number is a non-empty digit string.
LabelStartsWithEmpty(col) == col.k = "str" /\ startswith(col.s, EmptyPrefix)
LabelIsBlank(col) == col.k = "str" /\ StripsToEmpty(col.s)

(***************************************************************************)
(* Tables (DataFrames): a sequence of column labels and a sequence of rows, *)
(* each row a sequence of cells, one per column.                            *)
(***************************************************************************)
NCols(df) == Len(df.columns)
NRows(df) == Len(df.rows)

\* df.iloc[:, j] with a 0-based j
ColumnAt(df, j) == [i \in 1..NRows(df) |-> df.rows[i][j + 1]]

RECURSIVE dropna(_)
dropna(col) ==
    IF col = <<>> THEN <<>>
    ELSE IF isna(Head(col)) THEN dropna(Tail(col))
         ELSE <<Head(col)>> \o dropna(Tail(col))


\* obj.iloc[:, j].dropna().tolist()
ColumnValues(df, j) == dropna(ColumnAt(df, j))

(***************************************************************************)
(* float(): the value, in hundredths, of a string of digits and decimal     *)
(* points.  float() accepts "12", "12.", ".5" and "12.5" and raises         *)
(* ValueError on ".", "" and on a string with two decimal points.  Inputs   *)
(* carry at most two decimals.                                              *)
(***************************************************************************)
RECURSIVE CountDots(_)
CountDots(t) ==
    IF t = <<>> THEN 0
    ELSE (IF Head(t) = "." THEN 1 ELSE 0) + CountDots(Tail(t))

RECURSIVE DigitsValue(_)
DigitsValue(t) ==
    IF t = <<>> THEN 0
    ELSE DigitsValue(SubSeq(t, 1, Len(t) - 1)) * 10 + DigitValue(t[Len(t)])

DotIndex(t) ==
    IF \E i \in 1..Len(t) : t[i] = "."
    THEN CHOOSE i \in 1..Len(t) : t[i] = "."
    ELSE Len(t) + 1

FloatParses(t) == CountDots(t) <= 1 /\ Len(t) - CountDots(t) >= 1

FloatValue(t) ==
    LET d == DotIndex(t)
        whole == SubSeq(t, 1, d - 1)
        frac == SubSeq(t, d + 1, Len(t))
        frac2 == SubSeq(frac \o <<"0", "0">>, 1, 2)
    IN  DigitsValue(whole) * 100 + DigitsValue(frac2)

\* mutant: the decimal point is removed with the other characters
RECURSIVE cleaned_str_digits_only(_)
cleaned_str_digits_only(t) ==
    IF t = <<>> THEN <<>>
    ELSE (IF isdigit(Head(t)) THEN <<Head(t)>> ELSE <<>>)
         \o cleaned_str_digits_only(Tail(t))

\* ''.join(c for c in ts if c.isdigit() or c == '.')
RECURSIVE cleaned_str(_)
cleaned_str(t) ==
    IF t = <<>> THEN <<>>
    ELSE (IF isdigit(Head(t)) \/ Head(t) = "." THEN <<Head(t)>> ELSE <<>>)
         \o cleaned_str(Tail(t))

(***************************************************************************)
(* clean_timestamps: the cleaned numbers, and the values a warning was      *)
(* printed for.                                                             *)
(***************************************************************************)
\* what one value appends to `cleaned`
CleanedOf(ts) ==
    IF isna(ts) THEN <<>>
    ELSE IF ts.k = "str"
         THEN IF cleaned_str(ts.s) # <<>> /\ FloatParses(cleaned_str(ts.s))
              THEN <<FloatValue(cleaned_str(ts.s))>>
              ELSE <<>>
         ELSE <<ts.v>>

\* whether the except branch prints a warning for one value: float() raised
WarnedOf(ts) ==
    /\ notna(ts)
    /\ ts.k = "str"
    /\ cleaned_str(ts.s) # <<>>
    /\ ~FloatParses(cleaned_str(ts.s))

RECURSIVE clean_timestamps(_)
clean_timestamps(timestamps) ==
    IF timestamps = <<>> THEN <<>>
    ELSE CleanedOf(Head(timestamps)) \o clean_timestamps(Tail(timestamps))

RECURSIVE clean_warnings(_)
clean_warnings(timestamps) ==
    IF timestamps = <<>> THEN <<>>
    ELSE (IF WarnedOf(Head(timestamps)) THEN <<Head(timestamps)>> ELSE <<>>)
         \o clean_warnings(Tail(timestamps))

(***************************************************************************)
(* calculate_bout_durations: for i in range(0, len(timestamps) - 1, 2).     *)
(* The series holds numbers (integers, hundredths) or NaN cells.            *)
(***************************************************************************)
\* range(start, stop, step) as the sequence of its values, step > 0
RECURSIVE range(_, _, _)
range(start, stop, step) ==
    IF start >= stop THEN <<>>
    ELSE <<start>> \o range(start + step, stop, step)

\* the duration appended at index i (0-based), if any
BoutAt(timestamps, i) ==
    IF notna(timestamps[i + 1]) /\ notna(timestamps[i + 2])
    THEN <<timestamps[i + 2].v - timestamps[i + 1].v>>
    ELSE <<>>

RECURSIVE BoutsFrom(_, _)
BoutsFrom(timestamps, idx) ==
    IF idx = <<>> THEN <<>>
    ELSE BoutAt(timestamps, Head(idx)) \o BoutsFrom(timestamps, Tail(idx))

\* mutant: the loop steps by 1, pairing every element with its successor
calculate_bout_durations_step1(timestamps) ==
    BoutsFrom(timestamps, range(0, Len(timestamps) - 1, 1))

calculate_bout_durations(timestamps) ==
    BoutsFrom(timestamps, range(0, Len(timestamps) - 1, 2))

\* a cleaned series as cells, the form calculate_bout_durations reads
AsCells(nums) == [i \in 1..Len(nums) |-> Num(nums[i])]

\* sum(durations): a left fold from 0
RECURSIVE sum(_)
sum(durations) ==
    IF durations = <<>> THEN 0
    ELSE sum(SubSeq(durations, 1, Len(durations) - 1)) + durations[Len(durations)]

(***************************************************************************)
(* process_worksheet_for_di: layout detection.                              *)
(***************************************************************************)
SkipColumns == 4        \* obj2_start = empty_col_start + 4
LegacyObj2Col == 7      \* column H
None == -1              \* empty_col_start = None

\* str(col).startswith('empty_') or pd.isna(col) or str(col).strip() == ''
IsEmptyLabel(col) == LabelStartsWithEmpty(col) \/ isna(col) \/ LabelIsBlank(col)

EmptyLabelIndexes(df) == {i \in 0..(NCols(df) - 1) : IsEmptyLabel(df.columns[i + 1])}

HasEmptyColumns(df) == EmptyLabelIndexes(df) # {}

\* mutant: without the `if empty_col_start is None` guard the last match wins
EmptyColStart_last(df) ==
    IF EmptyLabelIndexes(df) = {} THEN None
    ELSE CHOOSE i \in EmptyLabelIndexes(df) : \A j \in EmptyLabelIndexes(df) : i >= j

EmptyColStart(df) ==
    IF EmptyLabelIndexes(df) = {} THEN None
    ELSE CHOOSE i \in EmptyLabelIndexes(df) : \A j \in EmptyLabelIndexes(df) : i <= j

IsFormatted(df) == HasEmptyColumns(df) /\ EmptyColStart(df) # None

(***************************************************************************)
(* process_worksheet_for_di: extraction of the two raw timestamp columns.   *)
(* .iloc[:, 0] raises IndexError on a frame without columns.                *)
(***************************************************************************)
Obj2Start(df) == EmptyColStart(df) + SkipColumns

ExtractionRaises(df) ==
    IF IsFormatted(df)
    THEN EmptyColStart(df) = 0      \* obj1_data = df.iloc[:, :0] has no column 0
    ELSE NCols(df) = 0              \* df.iloc[:, 0]

Obj1Raw(df) == ColumnValues(df, 0)

Obj2Raw(df) ==
    IF IsFormatted(df)
    THEN IF Obj2Start(df) < NCols(df) THEN ColumnValues(df, Obj2Start(df)) ELSE <<>>
    ELSE IF NCols(df) > LegacyObj2Col THEN ColumnValues(df, LegacyObj2Col) ELSE <<>>

(***************************************************************************)
(* process_worksheet_for_di: totals, TET and DI before rounding.  DI is the *)
(* exact quotient num / den, den > 0.                                       *)
(***************************************************************************)
Ratio(n, d) == [num |-> n, den |-> d]

\* mutant: the numerator subtracts the wrong way round
DiscriminationIndex_swapped(obj1_total, obj2_total) ==
    IF obj1_total + obj2_total > 0
    THEN Ratio(obj2_total - obj1_total, obj1_total + obj2_total)
    ELSE Ratio(0, 1)

DiscriminationIndex(obj1_total, obj2_total) ==
    IF obj1_total + obj2_total > 0
    THEN Ratio(obj1_total - obj2_total, obj1_total + obj2_total)
    ELSE Ratio(0, 1)

\* the locals of process_worksheet_for_di at line 287, when nothing raised
Locals(df) ==
    LET ts1 == clean_timestamps(Obj1Raw(df))
        ts2 == clean_timestamps(Obj2Raw(df))
        d1 == calculate_bout_durations(AsCells(ts1))
        d2 == calculate_bout_durations(AsCells(ts2))
    IN  [obj1_raw |-> Obj1Raw(df),
         obj2_raw |-> Obj2Raw(df),
         obj1_timestamps |-> ts1,
         obj2_timestamps |-> ts2,
         warnings |-> clean_warnings(Obj1Raw(df)) \o clean_warnings(Obj2Raw(df)),
         obj1_durations |-> d1,
         obj2_durations |-> d2,
         obj1_total_time |-> sum(d1),
         obj2_total_time |-> sum(d2),
         total_exploration_time |-> sum(d1) + sum(d2),
         di |-> DiscriminationIndex(sum(d1), sum(d2))]

(***************************************************************************)
(* round(): the integers nearest to n / d, d > 0.  On an exact tie the      *)
(* result of round() on a float depends on which side of the tie the binary *)
(* value fell, so both neighbours are possible.                             *)
(***************************************************************************)
Nearest(n, d) ==
    LET q == n \div d
        r == n - q * d
    IN  IF 2 * r < d THEN {q}
        ELSE IF 2 * r > d THEN {q + 1}
        ELSE {q, q + 1}

\* round(x, 1) of a value in hundredths, in hundredths
Round1(x) == {10 * m : m \in Nearest(x, 10)}

\* round(di, 2), in hundredths
Round2(di) == Nearest(100 * di.num, di.den)

\* the dictionaries returned if TET were the sum of the two rounded totals
Summaries_tet_of_rounded(df, sheet_name) ==
    LET l == Locals(df)
    IN  {[sheet_name |-> sheet_name,
          obj1_exploration |-> o1,
          obj2_exploration |-> o2,
          tet |-> o1 + o2,
          di |-> d,
          obj1_durations |-> l.obj1_durations,
          obj2_durations |-> l.obj2_durations] :
            o1 \in Round1(l.obj1_total_time),
            o2 \in Round1(l.obj2_total_time),
            d \in Round2(l.di)}

\* the dictionaries process_worksheet_for_di can return
Summaries(df, sheet_name) ==
    LET l == Locals(df)
    IN  {[sheet_name |-> sheet_name,
          obj1_exploration |-> o1,
          obj2_exploration |-> o2,
          tet |-> t,
          di |-> d,
          obj1_durations |-> l.obj1_durations,
          obj2_durations |-> l.obj2_durations] :
            o1 \in Round1(l.obj1_total_time),
            o2 \in Round1(l.obj2_total_time),
            t \in Round1(l.total_exploration_time),
            d \in Round2(l.di)}

(***************************************************************************)
(* Text order and formatting used by the object_id formatter.               *)
(***************************************************************************)
\* the characters of the model in code point order
Alphabet == <<" ", ".", "0", "1", "2", "3", "4", "5", "6", "7", "8", "9",
              "A", "B", "C", "D", "S", "_",
              "b", "c", "d", "e", "i", "j", "m", "o", "p", "t", "x", "y">>

Ord(c) == CHOOSE i \in 1..Len(Alphabet) : Alphabet[i] = c

\* a < b for Python strings
RECURSIVE LexLess(_, _)
LexLess(a, b) ==
    IF b = <<>> THEN FALSE
    ELSE IF a = <<>> THEN TRUE
    ELSE IF Head(a) # Head(b) THEN Ord(Head(a)) < Ord(Head(b))
    ELSE LexLess(Tail(a), Tail(b))

\* list.sort() on a list of distinct strings
RECURSIVE SortedKeys(_)
SortedKeys(keys) ==
    IF keys = <<>> THEN <<>>
    ELSE LET least == CHOOSE i \in 1..Len(keys) :
                          \A j \in 1..Len(keys) : j # i => LexLess(keys[i], keys[j])
         IN  <<keys[least]>> \o
             SortedKeys([k \in 1..(Len(keys) - 1) |->
                            IF k < least THEN keys[k] ELSE keys[k + 1]])

\* str() of a non-negative integer
RECURSIVE IntStr(_)
IntStr(n) ==
    IF n < 10 THEN <<Digits[n + 1]>>
    ELSE IntStr(n \div 10) \o <<Digits[(n % 10) + 1]>>

\* str(object_id) of a whole number held in hundredths: '1' in an int64
\* column, '1.0' in a float64 column
IdStr(v, is_float) ==
    IntStr(v \div 100) \o (IF is_float THEN <<".", "0">> ELSE <<>>)

ObjectIdText == <<"o", "b", "j", "e", "c", "t", "_", "i", "d">>
ObjectIdLabel == Str(ObjectIdText)
ObjInfix == <<"_", "o", "b", "j", "_">>

\* f"{sheet_name}_obj_{object_id}"
GroupKey(sheet_name, v, is_float) == sheet_name \o ObjInfix \o IdStr(v, is_float)

\* where the pattern _obj_[12] matches in a key (1-based start positions)
StemMatches(key) ==
    {i \in 1..(Len(key) - Len(ObjInfix)) :
        /\ SubSeq(key, i, i + Len(ObjInfix) - 1) = ObjInfix
        /\ key[i + Len(ObjInfix)] \in {"1", "2"}}

\* re.split(r'_obj_[12]', sheet_key)[0]
StemOf(key) ==
    IF StemMatches(key) = {} THEN key
    ELSE LET first == CHOOSE i \in StemMatches(key) : \A j \in StemMatches(key) : i <= j
         IN  SubSeq(key, 1, first - 1)

(***************************************************************************)
(* Workbooks and DataFrames of the formatter.  A stored sheet is a name and *)
(* a grid of cells whose first row is the header row.  A DataFrame carries  *)
(* its row index, because pd.concat(axis=1) aligns on it.                   *)
(***************************************************************************)
FillerColumns == 4      \* for i in range(4): combined_df[f'empty_{i+1}'] = ''
BlankText == Str(<<>>)  \* ''

\* a cell as pandas reads it: an empty string is a missing value
ReadCell(c) == IF c = BlankText THEN NaN ELSE c

\* pd.read_excel(path, sheet_name=...): first row is the header.  Headers of
\* the modelled workbooks are distinct non-blank texts, which pandas keeps.
read_excel(sheet) ==
    IF sheet.cells = <<>>
    THEN [columns |-> <<>>, index |-> <<>>, rows |-> <<>>]
    ELSE [columns |-> sheet.cells[1],
          index |-> [i \in 1..(Len(sheet.cells) - 1) |-> i - 1],
          rows |-> [i \in 1..(Len(sheet.cells) - 1) |->
                      [j \in 1..Len(sheet.cells[i + 1]) |-> ReadCell(sheet.cells[i + 1][j])]]]

\* 'object_id' in data.columns
HasObjectId(data) == \E j \in 1..NCols(data) : data.columns[j] = ObjectIdLabel

ObjectIdColumn(data) == CHOOSE j \in 1..NCols(data) : data.columns[j] = ObjectIdLabel

\* the column is float64 as soon as one of its cells is missing
IdsAreFloat(data) == \E i \in 1..NRows(data) : isna(data.rows[i][ObjectIdColumn(data)])

\* the group keys of data.groupby('object_id'): missing values form no group
GroupValues(data) ==
    {data.rows[i][ObjectIdColumn(data)].v :
        i \in {r \in 1..NRows(data) : notna(data.rows[r][ObjectIdColumn(data)])}}

\* a set of integers in ascending order (groupby sorts its keys)
RECURSIVE Ascending(_)
Ascending(S) ==
    IF S = {} THEN <<>>
    ELSE LET least == CHOOSE x \in S : \A y \in S : x <= y
         IN  <<least>> \o Ascending(S \ {least})

\* the rows of one group, in input order, under their original index labels
GroupOf(data, v) ==
    LET pos == SelectSeq([i \in 1..NRows(data) |-> i],
                         LAMBDA i : data.rows[i][ObjectIdColumn(data)] = Num(v))
    IN  [columns |-> data.columns,
         index |-> [k \in 1..Len(pos) |-> data.index[pos[k]]],
         rows |-> [k \in 1..Len(pos) |-> data.rows[pos[k]]]]

\* dictionaries keep insertion order: a sequence of [key, value]
DictHas(d, key) == \E i \in 1..Len(d) : d[i].key = key
DictGet(d, key) == d[CHOOSE i \in 1..Len(d) : d[i].key = key].value
DictSet(d, key, value) ==
    IF DictHas(d, key)
    THEN [i \in 1..Len(d) |-> IF d[i].key = key THEN [key |-> key, value |-> value] ELSE d[i]]
    ELSE Append(d, [key |-> key, value |-> value])

\* for object_id, group in data.groupby('object_id'): separated_data[key] = group.copy()
RECURSIVE SeparateGroups(_, _, _, _)
SeparateGroups(separated, sheet_name, data, values) ==
    IF values = <<>> THEN separated
    ELSE SeparateGroups(
            DictSet(separated,
                    GroupKey(sheet_name, Head(values), IdsAreFloat(data)),
                    GroupOf(data, Head(values))),
            sheet_name, data, Tail(values))

\* Step 2: sheet_groups[stem].append(sheet_key) for every key, in order
RECURSIVE GroupStems(_, _)
GroupStems(groups, keys) ==
    IF keys = <<>> THEN groups
    ELSE LET stem == StemOf(Head(keys))
             list == IF DictHas(groups, stem) THEN DictGet(groups, stem) ELSE <<>>
         IN  GroupStems(DictSet(groups, stem, Append(list, Head(keys))), Tail(keys))

DictKeys(d) == [i \in 1..Len(d) |-> d[i].key]

\* combined_df[label] = '': a new last column, or an existing one overwritten
AssignColumn(frame, label, cell) ==
    IF \E j \in 1..NCols(frame) : frame.columns[j] = label
    THEN [frame EXCEPT !.rows =
            [i \in 1..NRows(frame) |->
               [j \in 1..NCols(frame) |->
                  IF frame.columns[j] = label THEN cell ELSE frame.rows[i][j]]]]
    ELSE [frame EXCEPT !.columns = Append(frame.columns, label),
                       !.rows = [i \in 1..NRows(frame) |-> Append(frame.rows[i], cell)]]

RECURSIVE AddFillers(_, _)
AddFillers(frame, i) ==
    IF i >= FillerColumns THEN frame
    ELSE AddFillers(AssignColumn(frame, EmptyLabel(i + 1), BlankText), i + 1)

\* frame.reset_index(drop=True)
reset_index(frame) == [frame EXCEPT !.index = [i \in 1..NRows(frame) |-> i - 1]]

RowAt(frame, label) ==
    IF \E i \in 1..NRows(frame) : frame.index[i] = label
    THEN frame.rows[CHOOSE i \in 1..NRows(frame) : frame.index[i] = label]
    ELSE [j \in 1..NCols(frame) |-> NaN]

\* pd.concat([a, b], axis=1): outer join on the (unique, integer) index
concat(a, b) ==
    LET labels == Ascending({a.index[i] : i \in 1..NRows(a)} \cup {b.index[i] : i \in 1..NRows(b)})
    IN  [columns |-> a.columns \o b.columns,
         index |-> labels,
         rows |-> [i \in 1..Len(labels) |-> RowAt(a, labels[i]) \o RowAt(b, labels[i])]]

\* Step 3 for one stem: the combined DataFrame
Combine(separated, sheet_list) ==
    LET sorted == SortedKeys(sheet_list)
        first == DictGet(separated, sorted[1])
    IN  IF Len(sorted) > 1
        THEN concat(reset_index(AddFillers(first, 0)),
                    reset_index(DictGet(separated, sorted[2])))
        ELSE first

\* combined_df.to_excel(writer, sheet_name=stem, index=False)
to_excel(frame, sheet_name) ==
    [name |-> sheet_name, cells |-> <<frame.columns>> \o frame.rows]

(***************************************************************************)
(* calculate_discrimination_index: the sheet as pandas reads it with        *)
(* header=None, and the cells openpyxl writes back.                         *)
(***************************************************************************)
ConsolidatedName == <<"C", "o", "n", "s", "o", "l", "i", "d", "a", "t", "e", "d", " ", "D", "a", "t", "a">>
SheetNameText == <<"S", "h", "e", "e", "t", " ", "N", "a", "m", "e">>
ValuesText == <<"V", "a", "l", "u", "e", "s">>
Obj1ExplorationText == <<"O", "b", "j", "1", " ", "E", "x", "p", "l", "o", "r", "a", "t", "i", "o", "n">>
Obj2ExplorationText == <<"O", "b", "j", "2", " ", "E", "x", "p", "l", "o", "r", "a", "t", "i", "o", "n">>
TETText == <<"T", "E", "T">>
DIText == <<"D", "I">>
Obj1ExploreText == <<"O", "b", "j", "1", "_", "E", "x", "p", "l", "o", "r", "e">>
Obj2ExploreText == <<"O", "b", "j", "2", "_", "E", "x", "p", "l", "o", "r", "e">>
Obj1ExploreTimeText == <<"O", "b", "j", "1", "_", "E", "x", "p", "l", "o", "r", "e", "_", "T", "i", "m", "e">>
Obj2ExploreTimeText == <<"O", "b", "j", "2", "_", "E", "x", "p", "l", "o", "r", "e", "_", "T", "i", "m", "e">>

SummaryStartRow == 10       \* summary_start_row = 10
SummaryColumnGap == 2       \* summary_start_col = max_col + 2
BoutColumnOffset == 3       \* bout_col_1 = summary_start_col + 3
BoutStartRow == 3           \* durations start at row 3

GridWidth(grid) == IF grid = <<>> THEN 0 ELSE Len(grid[1])

RowIsEmpty(row) == \A j \in 1..Len(row) : isna(ReadCell(row[j]))

\* the reader drops the empty rows after the last row with data and the
\* empty columns after the last column with data
LastRowWithData(grid) ==
    IF \A i \in 1..Len(grid) : RowIsEmpty(grid[i]) THEN 0
    ELSE CHOOSE i \in 1..Len(grid) :
            ~RowIsEmpty(grid[i]) /\ \A k \in (i + 1)..Len(grid) : RowIsEmpty(grid[k])

LastColumnWithData(grid) ==
    LET used == {j \in 1..GridWidth(grid) : \E i \in 1..Len(grid) : notna(ReadCell(grid[i][j]))}
    IN  IF used = {} THEN 0 ELSE CHOOSE j \in used : \A k \in used : k <= j

\* pd.read_excel(file_path, sheet_name=sheet_name, header=None): the header
\* row is data row 0 and the column labels are 0, 1, 2, ...
read_excel_no_header(sheet) ==
    LET grid == sheet.cells
        n == LastRowWithData(grid)
        w == LastColumnWithData(grid)
    IN  [columns |-> [j \in 1..w |-> Num(j - 1)],
         rows |-> [i \in 1..n |-> [j \in 1..w |-> ReadCell(grid[i][j])]]]

\* ws.max_column: 1 for a sheet without cells
max_column(grid) == IF GridWidth(grid) = 0 THEN 1 ELSE GridWidth(grid)

\* ws[cell] = value, rows and columns counted from 1
SetCell(grid, r, c, value) ==
    [i \in 1..Max(Len(grid), r) |->
        [j \in 1..Max(GridWidth(grid), c) |->
            IF i = r /\ j = c THEN value
            ELSE IF i <= Len(grid) /\ j <= GridWidth(grid) THEN grid[i][j]
            ELSE NaN]]

\* a column of values written downwards from row r
RECURSIVE SetColumn(_, _, _, _)
SetColumn(grid, r, c, values) ==
    IF values = <<>> THEN grid
    ELSE SetColumn(SetCell(grid, r, c, Num(Head(values))), r + 1, c, Tail(values))

\* write_di_summary_to_sheet on the cells of one worksheet, lines 315-358
WriteSummaryCells(grid, s) ==
    LET col == max_column(grid) + SummaryColumnGap
        bout == col + BoutColumnOffset
        g1 == SetCell(grid, SummaryStartRow, col, Str(Obj1ExplorationText))
        g2 == SetCell(g1, SummaryStartRow, col + 1, Num(s.obj1_exploration))
        g3 == SetCell(g2, SummaryStartRow + 1, col, Str(Obj2ExplorationText))
        g4 == SetCell(g3, SummaryStartRow + 1, col + 1, Num(s.obj2_exploration))
        g5 == SetCell(g4, SummaryStartRow + 2, col, Str(TETText))
        g6 == SetCell(g5, SummaryStartRow + 2, col + 1, Num(s.tet))
        g7 == SetCell(g6, SummaryStartRow + 3, col, Str(DIText))
        g8 == SetCell(g7, SummaryStartRow + 3, col + 1, Num(s.di))
        g9 == SetColumn(SetCell(g8, 1, bout, Str(Obj1ExploreText)),
                        BoutStartRow, bout, s.obj1_durations)
        g10 == SetColumn(SetCell(g9, 1, bout + 1, Str(Obj2ExploreText)),
                         BoutStartRow, bout + 1, s.obj2_durations)
        g11 == SetCell(g10, 1, col, Str(Obj1ExploreTimeText))
        g12 == SetCell(g11, 1, col + 1, Num(s.obj1_exploration))
        g13 == SetCell(g12, 2, bout, Str(Obj2ExploreTimeText))
    IN  SetCell(g13, 2, bout + 1, Num(s.obj2_exploration))

\* write_di_summary_to_sheet(workbook, sheet_name, summary_data)
write_di_summary_to_sheet(book, sheet_name, s) ==
    [i \in 1..Len(book) |->
        IF book[i].name = sheet_name
        THEN [book[i] EXCEPT !.cells = WriteSummaryCells(@, s)]
        ELSE book[i]]

\* the rows create_di_consolidated_sheet adds for the summaries, from row
RECURSIVE ConsolidatedRows(_, _, _)
ConsolidatedRows(grid, summaries, row) ==
    IF summaries = <<>> THEN grid
    ELSE LET s == Head(summaries)
         IN  IF s.sheet_name # ConsolidatedName
             THEN LET g0 == SetCell(grid, row, 1, Str(s.sheet_name))
                      g1 == SetCell(SetCell(g0, row + 1, 1, Str(Obj1ExplorationText)),
                                    row + 1, 2, Num(s.obj1_exploration))
                      g2 == SetCell(SetCell(g1, row + 2, 1, Str(Obj2ExplorationText)),
                                    row + 2, 2, Num(s.obj2_exploration))
                      g3 == SetCell(SetCell(g2, row + 3, 1, Str(TETText)),
                                    row + 3, 2, Num(s.tet))
                      g4 == SetCell(SetCell(g3, row + 4, 1, Str(DIText)),
                                    row + 4, 2, Num(s.di))
                  IN  ConsolidatedRows(g4, Tail(summaries), row + 6)
             ELSE ConsolidatedRows(grid, Tail(summaries), row)

\* create_di_consolidated_sheet(workbook, all_summaries), lines 379-428
create_di_consolidated_sheet(book, summaries) ==
    SelectSeq(book, LAMBDA sh : sh.name # ConsolidatedName)
    \o <<[name |-> ConsolidatedName,
          cells |-> ConsolidatedRows(<<<<Str(SheetNameText), Str(ValuesText)>>>>,
                                     summaries, 2)]>>

(***************************************************************************)
(* State.                                                                   *)
(***************************************************************************)
VARIABLES
    pc,                 \* position of the running function
    timestamps,         \* calculate_bout_durations: its argument
    bout_durations,     \* calculate_bout_durations: its result
    df,                 \* process_worksheet_for_di: its table argument
    has_empty_columns,  \* process_worksheet_for_di: local
    empty_col_start,    \* process_worksheet_for_di: local (None = -1)
    locals,             \* process_worksheet_for_di: the other locals at line 287
    summary,            \* process_worksheet_for_di: the returned dictionary
    raised,             \* the exception that left the function, or "none"
    files,              \* the workbooks on disk, by path
    input_path,         \* process_excel_by_object_id: its parameter
    fmt_i,              \* process_excel_by_object_id: position of its running loop
    separated_data,     \* process_excel_by_object_id: local dictionary
    has_object_id,      \* process_excel_by_object_id: local flag
    sheet_groups,       \* process_excel_by_object_id: local dictionary
    writer,             \* process_excel_by_object_id: sheets given to the ExcelWriter
    fmt_result,         \* process_excel_by_object_id: the returned pair
    mode,               \* main: the mode flag of the command line
    args_output,        \* main: args.output ("None" when not given)
    file_for_di,        \* main: the file handed to calculate_discrimination_index
    exit_status,        \* main: -1 while running, then the exit status
    printed_success,    \* main: the message of line 713 was printed
    output_path,        \* calculate_discrimination_index: local
    workbook,           \* calculate_discrimination_index: the openpyxl workbook
    sheet_names,        \* calculate_discrimination_index: local
    di_i,               \* calculate_discrimination_index: position of its loop
    all_summaries,      \* calculate_discrimination_index: local
    di_result,          \* calculate_discrimination_index: the returned triple
    io_log,             \* the calls of load_workbook and workbook.save, in order
    first_run,          \* what an earlier run on the same workbook returned
    sorted_prefixes,    \* auto_DI_format main: local
    combined_sheets,    \* auto_DI_format main: local dictionary
    auto_i,             \* auto_DI_format main: position of its running loop
    auto_writer,        \* auto_DI_format main: sheets given to the ExcelWriter
    wrote_sheet         \* auto_DI_format main: local flag

boutVars == <<timestamps, bout_durations>>
diVars == <<df, has_empty_columns, empty_col_start, locals, summary>>
fmtVars == <<input_path, fmt_i, separated_data, has_object_id, sheet_groups, writer, fmt_result>>
calcVars == <<output_path, workbook, sheet_names, di_i, all_summaries, di_result, io_log>>
mainVars == <<first_run, mode, args_output, file_for_di, exit_status, printed_success, calcVars>>
autoVars == <<sorted_prefixes, combined_sheets, auto_i, auto_writer, wrote_sheet>>
vars == <<pc, boutVars, diVars, raised, files, fmtVars, mainVars, autoVars>>

NoTable == [columns |-> <<>>, rows |-> <<>>]
NoLocals == [obj1_raw |-> <<>>, obj2_raw |-> <<>>,
             obj1_timestamps |-> <<>>, obj2_timestamps |-> <<>>,
             warnings |-> <<>>,
             obj1_durations |-> <<>>, obj2_durations |-> <<>>,
             obj1_total_time |-> 0, obj2_total_time |-> 0,
             total_exploration_time |-> 0, di |-> Ratio(0, 1)]
NoSummary == [sheet_name |-> <<>>, obj1_exploration |-> 0, obj2_exploration |-> 0,
              tet |-> 0, di |-> 0, obj1_durations |-> <<>>, obj2_durations |-> <<>>]

BoutIdle == timestamps = <<>> /\ bout_durations = <<>>
DIIdle ==
    /\ df = NoTable
    /\ has_empty_columns = FALSE
    /\ empty_col_start = None
    /\ locals = NoLocals
    /\ summary = NoSummary

InputPath == "input.xlsx"
CsvFolder == "csv_folder"                   \* args.csv_folder, its CSV files
\* f'temp_csv_converted_{timestamp}.xlsx' and f'combined_excel_{timestamp}.xlsx'
TempExcelPath == "temp_csv_converted_T.xlsx"
CombinedPath == "combined_excel_T.xlsx"
\* f'{input_stem}_formatted.xlsx'
FormattedOf(path) ==
    IF path = InputPath THEN "input_formatted.xlsx"
    ELSE IF path = TempExcelPath THEN "temp_csv_converted_T_formatted.xlsx"
    ELSE IF path = CombinedPath THEN "combined_excel_T_formatted.xlsx"
    ELSE "other_formatted.xlsx"
FormattedPath == FormattedOf(InputPath)
OutPath == "out.xlsx"                       \* a path given with --output
\* another spelling of the path of the formatted workbook, given with --output
AliasPath == "./input_formatted.xlsx"
\* f'{input_stem}_DI_processed.xlsx'
DefaultDIPath(path) ==
    IF path = InputPath THEN "input_DI_processed.xlsx"
    ELSE IF path = FormattedPath THEN "input_formatted_DI_processed.xlsx"
    ELSE IF path = CombinedPath THEN "combined_excel_T_DI_processed.xlsx"
    ELSE IF path = FormattedOf(CombinedPath) THEN "combined_excel_T_formatted_DI_processed.xlsx"
    ELSE "other_DI_processed.xlsx"
Paths ==
    {CsvFolder, InputPath, TempExcelPath, CombinedPath, OutPath}
    \cup {FormattedOf(p) : p \in {InputPath, TempExcelPath, CombinedPath}}
    \cup {DefaultDIPath(p) : p \in {InputPath, FormattedPath, CombinedPath, FormattedOf(CombinedPath)}}

\* the file a path names: files are kept under their normalised path
abspath(path) == IF path = AliasPath THEN FormattedPath ELSE path

Absent == [exists |-> FALSE, readable |-> FALSE, book |-> <<>>]
Workbook(sheets) == [exists |-> TRUE, readable |-> TRUE, book |-> sheets]
\* what a writer that failed while saving leaves behind
Unreadable == [exists |-> TRUE, readable |-> FALSE, book |-> <<>>]

NoResult == [success |-> FALSE, output_path |-> "unset"]

FmtIdle ==
    /\ input_path = "unset"
    /\ fmt_i = 0
    /\ separated_data = <<>>
    /\ has_object_id = FALSE
    /\ sheet_groups = <<>>
    /\ writer = <<>>
    /\ fmt_result = NoResult

NoFiles == files = [p \in Paths |-> Absent]

NoDIResult == [success |-> FALSE, output_path |-> "unset", summaries |-> <<>>]

CalcIdle ==
    /\ output_path = "unset"
    /\ workbook = <<>>
    /\ sheet_names = <<>>
    /\ di_i = 0
    /\ all_summaries = <<>>
    /\ di_result = NoDIResult
    /\ io_log = <<>>

AutoIdle ==
    /\ sorted_prefixes = <<>>
    /\ combined_sheets = <<>>
    /\ auto_i = 0
    /\ auto_writer = <<>>
    /\ wrote_sheet = FALSE

NoRun == [done |-> FALSE, summaries |-> <<>>]

MainIdle ==
    /\ first_run = NoRun
    /\ mode = "none"
    /\ args_output = "None"
    /\ file_for_di = "unset"
    /\ exit_status = -1
    /\ printed_success = FALSE
    /\ CalcIdle

\* all sequences over S of length at most n
SeqUpTo(S, n) == UNION {[1..k -> S] : k \in 0..n}

(***************************************************************************)
(* Specification SpecBout: calculate_bout_durations on every series of at   *)
(* most MaxTs cells drawn from 1, 3, 5, 9 seconds and NaN.                  *)
(***************************************************************************)
BoutCells == {Num(100), Num(300), Num(500), Num(900), NaN}

InitBout ==
    /\ pc = "call"
    /\ timestamps \in SeqUpTo(BoutCells, MaxTs)
    /\ bout_durations = <<>>
    /\ DIIdle
    /\ raised = "none"
    /\ NoFiles
    /\ FmtIdle
    /\ MainIdle
    /\ AutoIdle

CalculateBoutDurations ==
    /\ pc = "call"
    /\ bout_durations' = calculate_bout_durations(timestamps)
    /\ pc' = "done"
    /\ UNCHANGED <<timestamps, diVars, raised, files, fmtVars, mainVars>>
    /\ UNCHANGED autoVars

NextBout == CalculateBoutDurations

SpecBout == InitBout /\ [][NextBout]_vars

(***************************************************************************)
(* Specification SpecDI: process_worksheet_for_di on bounded tables.        *)
(*                                                                         *)
(* InitMetric draws the two timestamp series (0, 4, 6 and 10 seconds, at    *)
(* most MaxRows each, the shorter column padded with missing cells) and     *)
(* lays them out in a legacy sheet (columns A and H) or a formatted one.    *)
(* InitLayout draws the column labels of a table of at most MaxCols columns *)
(* whose column j (0-based) holds the bout 0 .. j + 1 seconds.  TextTables  *)
(* are one-column tables of numeric, missing and textual raw values.        *)
(***************************************************************************)
SheetName == <<"S">>

TimeLabel == Str(<<"t">>)

\* a table with the given labels whose columns p1 and p2 (0-based) hold the
\* series s1 and s2, every other cell missing
SheetTable(labels, p1, s1, p2, s2) ==
    [columns |-> labels,
     rows |-> [i \in 1..Max(Len(s1), Len(s2)) |->
                 [j \in 1..Len(labels) |->
                    IF j = p1 + 1 /\ i <= Len(s1) THEN Num(s1[i])
                    ELSE IF j = p2 + 1 /\ i <= Len(s2) THEN Num(s2[i])
                    ELSE NaN]]]

MetricValues == {0, 400, 600, 1000}

LegacyLabels == [j \in 1..(LegacyObj2Col + 1) |-> Num(j - 1)]
FormattedLabels ==
    <<TimeLabel, EmptyLabel(1), EmptyLabel(2), EmptyLabel(3), EmptyLabel(4), TimeLabel>>

MetricTables ==
    {SheetTable(LegacyLabels, 0, s1, LegacyObj2Col, s2) :
        s1 \in SeqUpTo(MetricValues, MaxRows), s2 \in SeqUpTo(MetricValues, MaxRows)}
    \cup
    {SheetTable(FormattedLabels, 0, s1, 5, s2) :
        s1 \in SeqUpTo(MetricValues, MaxRows), s2 \in SeqUpTo(MetricValues, MaxRows)}

LayoutLabels == {TimeLabel, EmptyLabel(1), Str(<<" ">>), NaN}

LayoutRows(n) ==
    IF n = 0 THEN <<>>
    ELSE <<[j \in 1..n |-> Num(0)], [j \in 1..n |-> Num(100 * j)]>>

LayoutTables ==
    {[columns |-> labels, rows |-> LayoutRows(Len(labels))] :
        labels \in SeqUpTo(LayoutLabels, MaxCols)}

\* raw values of a timestamp column: 1, missing, "12.5s", "abc", "1.2.3", "4s5"
TextCells ==
    {Num(100), NaN,
     Str(<<"1", "2", ".", "5", "s">>), Str(<<"a", "b", "c">>),
     Str(<<"1", ".", "2", ".", "3">>), Str(<<"4", "s", "5">>)}

\* one-column tables holding such values
TextTables ==
    {[columns |-> <<TimeLabel>>, rows |-> [i \in 1..Len(col) |-> <<col[i]>>]] :
        col \in SeqUpTo(TextCells, MaxRows)}

\* timestamps 0, 0.04, 0.5 and 1 second: bouts shorter than the rounding step
FineValues == {0, 4, 50, 100}

\* legacy sheets with one bout per object drawn from such timestamps
FineTables ==
    {SheetTable(LegacyLabels, 0, s1, LegacyObj2Col, s2) :
        s1 \in [1..2 -> FineValues], s2 \in [1..2 -> FineValues]}

InitDI ==
    /\ pc = "call"
    /\ df \in MetricTables \cup LayoutTables \cup TextTables \cup FineTables
    /\ has_empty_columns = FALSE
    /\ empty_col_start = None
    /\ locals = NoLocals
    /\ summary = NoSummary
    /\ BoutIdle
    /\ raised = "none"
    /\ NoFiles
    /\ FmtIdle
    /\ MainIdle
    /\ AutoIdle

\* process_worksheet_for_di(df, sheet_name), lines 197-303
ProcessWorksheetForDI ==
    /\ pc = "call"
    /\ has_empty_columns' = HasEmptyColumns(df)
    /\ empty_col_start' = EmptyColStart(df)
    /\ IF ExtractionRaises(df)
       THEN /\ raised' = "IndexError"
            /\ pc' = "raised"
            /\ UNCHANGED <<locals, summary>>
       ELSE /\ locals' = Locals(df)
            /\ summary' \in Summaries(df, SheetName)
            /\ pc' = "done"
            /\ UNCHANGED raised
    /\ UNCHANGED <<df, boutVars, files, fmtVars, mainVars>>
    /\ UNCHANGED autoVars

NextDI == ProcessWorksheetForDI

SpecDI == InitDI /\ [][NextDI]_vars

(***************************************************************************)
(* Specification SpecFormat: process_excel_by_object_id(input_path, None)   *)
(* (and its twin process_excel_file of manual_DI_format.py) on bounded      *)
(* workbooks.                                                               *)
(*                                                                         *)
(* Sheet A has one of three header rows and at most MaxFmtRows rows; row r  *)
(* holds the time r seconds and an object_id drawn from 1, 2, 3, 10 and a   *)
(* missing cell.  Sheet B, when present, is one of two fixed sheets, with   *)
(* or without an object_id column.                                          *)
(***************************************************************************)
MaxFmtRows == 3

XLabel == Str(<<"x">>)
IdCells == {Num(100), Num(200), Num(300), Num(1000), NaN}

HeaderRows ==
    {<<TimeLabel, ObjectIdLabel>>,
     <<ObjectIdLabel, TimeLabel, XLabel>>,
     <<TimeLabel, EmptyLabel(1), ObjectIdLabel>>}

\* the data cell of row r under a header
DataCell(header, r, id) ==
    IF header = ObjectIdLabel THEN id
    ELSE IF header = TimeLabel THEN Num(100 * r)
    ELSE Num(100 * r + 50)

SheetOf(name, headers, ids) ==
    [name |-> name,
     cells |-> <<headers>> \o
               [r \in 1..Len(ids) |-> [j \in 1..Len(headers) |-> DataCell(headers[j], r, ids[r])]]]

SheetsA == {SheetOf(<<"A">>, h, ids) : h \in HeaderRows, ids \in SeqUpTo(IdCells, MaxFmtRows)}
SheetsB ==
    {SheetOf(<<"B">>, <<TimeLabel, XLabel>>, <<NaN, NaN>>),
     SheetOf(<<"B">>, <<TimeLabel, ObjectIdLabel>>, <<Num(200), Num(100)>>)}

InputBooks ==
    {<<a>> : a \in SheetsA} \cup {<<b>> : b \in SheetsB}
    \cup {<<a, b>> : a \in SheetsA, b \in SheetsB}
    \cup {<<b, a>> : a \in SheetsA, b \in SheetsB}

InitFormat ==
    /\ pc = "fmt_step1"
    /\ files \in {[p \in Paths |-> IF p = InputPath THEN f ELSE Absent] :
                      f \in {Workbook(b) : b \in InputBooks} \cup {Unreadable}}
    /\ input_path = InputPath
    /\ fmt_i = 1
    /\ separated_data = <<>>
    /\ has_object_id = FALSE
    /\ sheet_groups = <<>>
    /\ writer = <<>>
    /\ fmt_result = NoResult
    /\ BoutIdle
    /\ DIIdle
    /\ raised = "none"
    /\ MainIdle
    /\ AutoIdle

\* the workbook named on the command line
InputBook == files[InputPath].book

\* excel_data = pd.ExcelFile(input_path)
excel_data == files[input_path].book

\* line 107: a file that is no workbook cannot be loaded, the exception is
\* caught at line 178
FmtOpenFails ==
    /\ pc = "fmt_step1"
    /\ ~files[input_path].readable
    /\ fmt_result' = [success |-> FALSE, output_path |-> "None"]
    /\ pc' = "fmt_done"
    /\ UNCHANGED <<input_path, fmt_i, separated_data, has_object_id, sheet_groups, writer,
                   files, boutVars, diVars, raised, mainVars>>
    /\ UNCHANGED autoVars

\* Step 1, one sheet: lines 114-129
FmtReadSheet ==
    /\ pc = "fmt_step1"
    /\ files[input_path].readable
    /\ fmt_i <= Len(excel_data)
    /\ LET sheet == excel_data[fmt_i]
           data == read_excel(sheet)
       IN  IF HasObjectId(data)
           THEN /\ has_object_id' = TRUE
                /\ separated_data' =
                      SeparateGroups(separated_data, sheet.name, data,
                                     Ascending(GroupValues(data)))
           ELSE UNCHANGED <<has_object_id, separated_data>>
    /\ fmt_i' = fmt_i + 1
    /\ UNCHANGED <<pc, input_path, sheet_groups, writer, fmt_result,
                   files, boutVars, diVars, raised, mainVars>>
    /\ UNCHANGED autoVars

\* lines 131-134: no sheet has an object_id column
FmtNoObjectId ==
    /\ pc = "fmt_step1"
    /\ files[input_path].readable
    /\ fmt_i > Len(excel_data)
    /\ ~has_object_id
    /\ fmt_result' = [success |-> FALSE, output_path |-> "None"]
    /\ pc' = "fmt_done"
    /\ UNCHANGED <<input_path, fmt_i, separated_data, has_object_id, sheet_groups, writer,
                   files, boutVars, diVars, raised, mainVars>>
    /\ UNCHANGED autoVars

\* Step 2: lines 137-141
FmtGroupStems ==
    /\ pc = "fmt_step1"
    /\ files[input_path].readable
    /\ fmt_i > Len(excel_data)
    /\ has_object_id
    /\ sheet_groups' = GroupStems(<<>>, DictKeys(separated_data))
    /\ fmt_i' = 1
    /\ pc' = "fmt_step3"
    /\ UNCHANGED <<input_path, separated_data, has_object_id, writer, fmt_result,
                   files, boutVars, diVars, raised, mainVars>>
    /\ UNCHANGED autoVars

\* Step 3, one stem: lines 148-171
FmtWriteStem ==
    /\ pc = "fmt_step3"
    /\ fmt_i <= Len(sheet_groups)
    /\ writer' = Append(writer,
                        to_excel(Combine(separated_data, sheet_groups[fmt_i].value),
                                 sheet_groups[fmt_i].key))
    /\ sheet_groups' = [sheet_groups EXCEPT ![fmt_i].value = SortedKeys(@)]
    /\ fmt_i' = fmt_i + 1
    /\ UNCHANGED <<pc, input_path, separated_data, has_object_id, fmt_result,
                   files, boutVars, diVars, raised, mainVars>>
    /\ UNCHANGED autoVars

\* leaving the `with pd.ExcelWriter(...)` block saves the workbook (lines
\* 147, 175-180); a workbook without sheets cannot be saved, the exception
\* is caught at line 178
FmtSave ==
    /\ pc = "fmt_step3"
    /\ fmt_i > Len(sheet_groups)
    /\ IF writer = <<>>
       THEN /\ files' = [files EXCEPT ![FormattedOf(input_path)] = Unreadable]
            /\ fmt_result' = [success |-> FALSE, output_path |-> "None"]
       ELSE /\ files' = [files EXCEPT ![FormattedOf(input_path)] = Workbook(writer)]
            /\ fmt_result' = [success |-> TRUE, output_path |-> FormattedOf(input_path)]
    /\ pc' = "fmt_done"
    /\ UNCHANGED <<input_path, fmt_i, separated_data, has_object_id, sheet_groups, writer,
                   boutVars, diVars, raised, mainVars>>
    /\ UNCHANGED autoVars

NextFormat ==
    \/ FmtOpenFails
    \/ FmtReadSheet
    \/ FmtNoObjectId
    \/ FmtGroupStems
    \/ FmtWriteStem
    \/ FmtSave

SpecFormat == InitFormat /\ [][NextFormat]_vars

(***************************************************************************)
(* Specification SpecMain: main() in the modes --di-only, --process-excel   *)
(* and --full-pipeline, with and without --output, on bounded workbooks.    *)
(*                                                                         *)
(* Sheet A carries an object_id column (ids 1 and 2, at most MaxMainRows    *)
(* rows).  Sheet B carries none: it is a legacy sheet (timestamps in        *)
(* columns A and H), a sheet of two columns or a sheet without cells.  A    *)
(* workbook may hold the "Consolidated Data" sheet of an earlier run.       *)
(***************************************************************************)
MaxMainRows == 2

MainIdCells == {Num(100), Num(200)}

ColLabel(j) == Str(<<"c", Digits[j + 1]>>)
LegacyHeader ==
    <<TimeLabel, ColLabel(1), ColLabel(2), ColLabel(3), ColLabel(4), ColLabel(5),
      ColLabel(6), Str(<<"u">>)>>

\* a sheet with a header row and the two series in columns A and H
LegacySheet(name, s1, s2) ==
    [name |-> name,
     cells |-> <<LegacyHeader>> \o SheetTable(LegacyHeader, 0, s1, LegacyObj2Col, s2).rows]

\* the same sheet with the headers "t1" and "t2" over the two series
NumberedHeader ==
    <<Str(<<"t", "1">>), ColLabel(1), ColLabel(2), ColLabel(3), ColLabel(4), ColLabel(5),
      ColLabel(6), Str(<<"t", "2">>)>>

NumberedSheet(name, s1, s2) ==
    [name |-> name,
     cells |-> <<NumberedHeader>> \o SheetTable(NumberedHeader, 0, s1, LegacyObj2Col, s2).rows]

MainSheetsA ==
    {SheetOf(<<"A">>, h, ids) : h \in HeaderRows, ids \in SeqUpTo(MainIdCells, MaxMainRows)}
MainSheetsB ==
    {LegacySheet(<<"B">>, s1, s2) :
        s1 \in {<<0, 400>>, <<100, 700, 900>>}, s2 \in {<<>>, <<0, 600>>}}
    \cup {SheetOf(<<"B">>, <<TimeLabel, XLabel>>, <<NaN, NaN>>),
          [name |-> <<"B">>, cells |-> <<>>],
          NumberedSheet(<<"B">>, <<0, 400>>, <<0, 600>>)}

\* a worksheet without cells, between two other sheets
EmptySheet == [name |-> <<"E">>, cells |-> <<>>]

\* the "Consolidated Data" sheet an earlier run left in the workbook, when
\* sheet E still held the bouts 0 .. 6 and 0 .. 4
StaleReport ==
    [name |-> ConsolidatedName,
     cells |-> <<<<Str(SheetNameText), Str(ValuesText)>>,
                 <<Str(<<"E">>), NaN>>,
                 <<Str(Obj1ExplorationText), Num(600)>>,
                 <<Str(Obj2ExplorationText), Num(400)>>,
                 <<Str(TETText), Num(1000)>>,
                 <<Str(DIText), Num(20)>>>>]

MainBooks ==
    {<<a>> : a \in MainSheetsA} \cup {<<b>> : b \in MainSheetsB}
    \cup {<<a, b>> : a \in MainSheetsA, b \in MainSheetsB}
    \cup {<<b, a>> : a \in MainSheetsA, b \in MainSheetsB}
    \cup {<<a, EmptySheet, b>> : a \in MainSheetsA, b \in MainSheetsB}
    \cup {<<StaleReport>>, <<EmptySheet, StaleReport>>}
    \cup {<<b, StaleReport>> : b \in MainSheetsB}

\* the sheet convert_csv_to_excel writes when no CSV file could be read
NoDataSheet ==
    [name |-> <<"N", "o", "D", "a", "t", "a">>,
     cells |-> <<<<NaN, Str(<<"M", "e", "s", "s", "a", "g", "e">>)>>,
                 <<Num(0), Str(<<"N", "o", " ", "v", "a", "l", "i", "d", " ", "d", "a", "t", "a", " ", "f", "o", "u", "n", "d">>)>>>>]

\* df = pd.read_csv(file_path); df.to_excel(writer, sheet_name, index=False)
\* for every CSV file that has data (an empty file raises EmptyDataError)
RECURSIVE ConvertedSheets(_)
ConvertedSheets(csv_files) ==
    IF csv_files = <<>> THEN <<>>
    ELSE (IF Head(csv_files).cells = <<>> THEN <<>>
          ELSE <<to_excel(read_excel(Head(csv_files)), Head(csv_files).name)>>)
         \o ConvertedSheets(Tail(csv_files))

\* in --full-pipeline mode the workbooks come as CSV files, one per sheet
InitMain ==
    /\ pc = "main"
    /\ mode \in {"di_only", "process_excel", "full_pipeline"}
    /\ args_output \in {"None", OutPath, FormattedPath, AliasPath}
    /\ files \in {[p \in Paths |-> IF p = (IF mode = "full_pipeline" THEN CsvFolder ELSE InputPath)
                                    THEN f ELSE Absent] :
                      f \in {Workbook(b) : b \in MainBooks}
                            \cup (IF mode = "full_pipeline" THEN {} ELSE {Unreadable})}
    /\ first_run = NoRun
    /\ file_for_di = "unset"
    /\ exit_status = -1
    /\ printed_success = FALSE
    /\ CalcIdle
    /\ AutoIdle
    /\ FmtIdle
    /\ BoutIdle
    /\ DIIdle
    /\ raised = "none"

\* main, lines 615-617, 677-679 and 683-688: the mode is entered
MainStart ==
    /\ pc = "main"
    /\ IF mode = "process_excel"
       THEN /\ pc' = "fmt_step1"
            /\ input_path' = InputPath
            /\ fmt_i' = 1
            /\ UNCHANGED file_for_di
       ELSE IF mode = "full_pipeline"
       THEN /\ pc' = "csv_convert"
            /\ UNCHANGED <<file_for_di, input_path, fmt_i>>
       ELSE /\ pc' = "di_load"
            /\ file_for_di' = InputPath
            /\ UNCHANGED <<input_path, fmt_i>>
    /\ UNCHANGED <<separated_data, has_object_id, sheet_groups, writer, fmt_result,
                   first_run, mode, args_output, exit_status, printed_success, calcVars,
                   files, boutVars, diVars, raised>>
    /\ UNCHANGED autoVars

\* main, lines 619-635, with convert_csv_to_excel (lines 13-78): the CSV
\* files are written to one workbook, which is handed to the formatter
MainConvertCsv ==
    /\ pc = "csv_convert"
    /\ LET excel_path == IF args_output # "None" THEN TempExcelPath ELSE CombinedPath
           sheets == ConvertedSheets(files[CsvFolder].book)
       IN  IF sheets = <<>>
           THEN /\ files' = [files EXCEPT ![excel_path] = Workbook(<<NoDataSheet>>)]
                /\ exit_status' = 1
                /\ pc' = "main_done"
                /\ UNCHANGED <<input_path, fmt_i>>
           ELSE /\ files' = [files EXCEPT ![excel_path] = Workbook(sheets)]
                /\ input_path' = excel_path
                /\ fmt_i' = 1
                /\ pc' = "fmt_step1"
                /\ UNCHANGED exit_status
    /\ UNCHANGED <<separated_data, has_object_id, sheet_groups, writer, fmt_result,
                   first_run, mode, args_output, file_for_di, printed_success, calcVars,
                   boutVars, diVars, raised>>
    /\ UNCHANGED autoVars

\* main, line 691 (--process-excel) and lines 637-645 (--full-pipeline)
MainChooseFile ==
    /\ pc = "fmt_done"
    /\ IF mode = "process_excel"
       THEN /\ file_for_di' = IF fmt_result.success THEN fmt_result.output_path ELSE InputPath
            /\ UNCHANGED files
       ELSE /\ file_for_di' = IF fmt_result.success THEN fmt_result.output_path ELSE input_path
            /\ files' = IF /\ fmt_result.success
                           /\ args_output # "None"
                           /\ files[input_path].exists
                        THEN [files EXCEPT ![input_path] = Absent]
                        ELSE files
    /\ pc' = "di_load"
    /\ UNCHANGED <<first_run, mode, args_output, exit_status, printed_success, calcVars,
                   fmtVars, boutVars, diVars, raised>>
    /\ UNCHANGED autoVars

\* calculate_discrimination_index, lines 447-458; a file that cannot be
\* loaded ends the call at line 498
DILoadWorkbook ==
    /\ pc = "di_load"
    /\ output_path' = IF args_output = "None" THEN DefaultDIPath(file_for_di) ELSE args_output
    /\ IF files[file_for_di].exists /\ files[file_for_di].readable
       THEN /\ workbook' = files[file_for_di].book
            /\ sheet_names' = [i \in 1..Len(SelectSeq(files[file_for_di].book,
                                                      LAMBDA sh : sh.name # ConsolidatedName)) |->
                                 SelectSeq(files[file_for_di].book,
                                           LAMBDA sh : sh.name # ConsolidatedName)[i].name]
            /\ di_i' = 1
            /\ io_log' = Append(io_log, "load")
            /\ pc' = "di_loop"
            /\ UNCHANGED di_result
       ELSE /\ di_result' = [success |-> FALSE, output_path |-> "None", summaries |-> <<>>]
            /\ io_log' = Append(io_log, "load_failed")
            /\ pc' = "di_done"
            /\ UNCHANGED <<workbook, sheet_names, di_i>>
    /\ UNCHANGED <<all_summaries, first_run, mode, args_output, file_for_di, exit_status, printed_success,
                   files, fmtVars, boutVars, diVars, raised>>
    /\ UNCHANGED autoVars

SheetNamed(book, name) == CHOOSE sh \in {book[i] : i \in 1..Len(book)} : sh.name = name

\* mutant: no try / except around one sheet, the exception ends the call at
\* line 498
DIProcessSheet_no_boundary ==
    /\ pc = "di_loop"
    /\ di_i <= Len(sheet_names)
    /\ LET sheet_name == sheet_names[di_i]
           table == read_excel_no_header(SheetNamed(files[file_for_di].book, sheet_name))
       IN  IF ExtractionRaises(table)
           THEN /\ di_result' = [success |-> FALSE, output_path |-> "None", summaries |-> <<>>]
                /\ pc' = "di_done"
                /\ UNCHANGED <<all_summaries, workbook, di_i>>
           ELSE /\ \E s \in Summaries(table, sheet_name) :
                      /\ all_summaries' = Append(all_summaries, s)
                      /\ workbook' = write_di_summary_to_sheet(workbook, sheet_name, s)
                /\ di_i' = di_i + 1
                /\ UNCHANGED <<pc, di_result>>
    /\ UNCHANGED <<output_path, sheet_names, io_log,
                   first_run, mode, args_output, file_for_di, exit_status, printed_success,
                   files, fmtVars, boutVars, diVars, raised>>
    /\ UNCHANGED autoVars

\* calculate_discrimination_index, one sheet of the loop: lines 461-472
DIProcessSheet ==
    /\ pc = "di_loop"
    /\ di_i <= Len(sheet_names)
    /\ LET sheet_name == sheet_names[di_i]
           table == read_excel_no_header(SheetNamed(files[file_for_di].book, sheet_name))
       IN  IF ExtractionRaises(table)
           THEN UNCHANGED <<all_summaries, workbook>>
           ELSE \E s \in Summaries(table, sheet_name) :
                   /\ all_summaries' = Append(all_summaries, s)
                   /\ workbook' = write_di_summary_to_sheet(workbook, sheet_name, s)
    /\ di_i' = di_i + 1
    /\ UNCHANGED <<pc, output_path, sheet_names, di_result, io_log,
                   first_run, mode, args_output, file_for_di, exit_status, printed_success,
                   files, fmtVars, boutVars, diVars, raised>>
    /\ UNCHANGED autoVars

\* calculate_discrimination_index, lines 475-498.  workbook.save can fail
\* (no permission, disk full): the file is then left as it was or broken,
\* and the exception ends the call at line 498.
DISave ==
    /\ pc = "di_loop"
    /\ di_i > Len(sheet_names)
    /\ workbook' = IF all_summaries # <<>>
                   THEN create_di_consolidated_sheet(workbook, all_summaries)
                   ELSE workbook
    /\ \E saved \in BOOLEAN :
          IF saved
          THEN /\ files' = [files EXCEPT ![abspath(output_path)] = Workbook(workbook')]
               /\ io_log' = Append(io_log, "save")
               /\ di_result' = [success |-> TRUE, output_path |-> output_path,
                                summaries |-> all_summaries]
          ELSE /\ files' \in {files, [files EXCEPT ![abspath(output_path)] = Unreadable]}
               /\ io_log' = Append(io_log, "save_failed")
               /\ di_result' = [success |-> FALSE, output_path |-> "None", summaries |-> <<>>]
    /\ pc' = "di_done"
    /\ UNCHANGED <<output_path, sheet_names, di_i, all_summaries,
                   first_run, mode, args_output, file_for_di, exit_status, printed_success,
                   fmtVars, boutVars, diVars, raised>>
    /\ UNCHANGED autoVars

\* mutant: --full-pipeline does not test di_success
MainFinish_unchecked ==
    /\ pc = "di_done"
    /\ IF ~di_result.success /\ mode # "full_pipeline"
       THEN /\ exit_status' = 1
            /\ UNCHANGED <<files, printed_success>>
       ELSE /\ exit_status' = 0
            /\ printed_success' = TRUE
            /\ UNCHANGED files
    /\ pc' = "main_done"
    /\ UNCHANGED <<first_run, mode, args_output, file_for_di, calcVars,
                   fmtVars, boutVars, diVars, raised>>
    /\ UNCHANGED autoVars

\* main, lines 651-662, 680-681 and 700-713
MainFinish ==
    /\ pc = "di_done"
    /\ IF ~di_result.success
       THEN /\ exit_status' = 1
            /\ UNCHANGED <<files, printed_success>>
       ELSE /\ exit_status' = 0
            /\ printed_success' = TRUE
            /\ files' = IF /\ mode = "process_excel"
                           /\ fmt_result.success
                           /\ di_result.output_path # FormattedPath
                           /\ files[FormattedPath].exists
                        THEN [files EXCEPT ![FormattedPath] = Absent]
                        ELSE IF /\ mode = "full_pipeline"
                                /\ fmt_result.success
                                /\ di_result.output_path # file_for_di
                                /\ files[file_for_di].exists
                        THEN [files EXCEPT ![file_for_di] = Absent]
                        ELSE files
    /\ pc' = "main_done"
    /\ UNCHANGED <<first_run, mode, args_output, file_for_di, calcVars,
                   fmtVars, boutVars, diVars, raised>>
    /\ UNCHANGED autoVars

NextMain ==
    \/ MainStart
    \/ MainConvertCsv
    \/ FmtOpenFails
    \/ FmtReadSheet
    \/ FmtNoObjectId
    \/ FmtGroupStems
    \/ FmtWriteStem
    \/ FmtSave
    \/ MainChooseFile
    \/ DILoadWorkbook
    \/ DIProcessSheet
    \/ DISave
    \/ MainFinish

SpecMain == InitMain /\ [][NextMain]_vars

(***************************************************************************)
(* Specification SpecRerun: main --di-only on a workbook, then main         *)
(* --di-only --output out.xlsx on the workbook the first run wrote.  The    *)
(* sheet B has a header row, 1 to MaxSheetCols columns, the object-1 series *)
(* in column A and, when it has a column H, the object-2 series there.      *)
(***************************************************************************)
MaxSheetCols == 8   \* most columns of the sheet of a re-run workbook

PlainHeader(w) == [j \in 1..w |-> IF j = 1 THEN TimeLabel ELSE XLabel]

PlainSheet(w, s1, s2) ==
    [name |-> <<"B">>,
     cells |-> <<PlainHeader(w)>> \o SheetTable(PlainHeader(w), 0, s1, LegacyObj2Col, s2).rows]

RerunSheets ==
    {PlainSheet(w, s1, IF w > LegacyObj2Col THEN s2 ELSE <<>>) :
        w \in 1..MaxSheetCols,
        s1 \in {<<>>, <<0, 400>>, <<100, 700, 900>>},
        s2 \in {<<>>, <<0, 600>>}}

RerunBooks == {<<b>> : b \in RerunSheets} \cup {<<EmptySheet, b>> : b \in RerunSheets}

InitRerun ==
    /\ pc = "main"
    /\ mode = "di_only"
    /\ args_output \in {"None", OutPath}
    /\ files \in {[p \in Paths |-> IF p = InputPath THEN Workbook(b) ELSE Absent] :
                      b \in RerunBooks}
    /\ first_run = NoRun
    /\ file_for_di = "unset"
    /\ exit_status = -1
    /\ printed_success = FALSE
    /\ CalcIdle
    /\ AutoIdle
    /\ FmtIdle
    /\ BoutIdle
    /\ DIIdle
    /\ raised = "none"

\* main, lines 677-679, entered a second time: args.excel_file is the file the
\* first run reported, args.output is out.xlsx
SecondRun ==
    /\ pc = "main_done"
    /\ exit_status = 0
    /\ ~first_run.done
    /\ first_run' = [done |-> TRUE, summaries |-> di_result.summaries]
    /\ file_for_di' = di_result.output_path
    /\ args_output' = OutPath
    /\ exit_status' = -1
    /\ printed_success' = FALSE
    /\ output_path' = "unset"
    /\ workbook' = <<>>
    /\ sheet_names' = <<>>
    /\ di_i' = 0
    /\ all_summaries' = <<>>
    /\ di_result' = NoDIResult
    /\ io_log' = <<>>
    /\ pc' = "di_load"
    /\ UNCHANGED <<mode, files, fmtVars, boutVars, diVars, raised>>
    /\ UNCHANGED autoVars

NextRerun ==
    \/ MainStart
    \/ DILoadWorkbook
    \/ DIProcessSheet
    \/ DISave
    \/ MainFinish
    \/ SecondRun

SpecRerun == InitRerun /\ [][NextRerun]_vars

(***************************************************************************)
(* Specification SpecAuto: main of auto_DI_format.py, --input input.xlsx    *)
(* --output out.xlsx.  The input workbook holds any of the sheets A_Obj1,   *)
(* A_Obj2, B_Obj1, B_Obj2, in either order, each without cells, with a      *)
(* header row only, or with up to MaxAutoRows data rows, and a sheet C.     *)
(***************************************************************************)
MaxAutoRows == 2    \* most data rows of a sheet given to auto_DI_format

Obj1Suffix == <<"_", "O", "b", "j", "1">>
Obj2Suffix == <<"_", "O", "b", "j", "2">>
SuffixLen == 5      \* sheet[:-5]
DefaultName == <<"D", "e", "f", "a", "u", "l", "t">>

endswith(t, suffix) ==
    /\ Len(t) >= Len(suffix)
    /\ SubSeq(t, Len(t) - Len(suffix) + 1, Len(t)) = suffix

SheetNames(book) == {book[i].name : i \in 1..Len(book)}

\* prefixes: sheet[:-5] of every sheet name ending in _Obj1 or _Obj2
Prefixes(book) ==
    {SubSeq(n, 1, Len(n) - SuffixLen) :
        n \in {x \in SheetNames(book) : endswith(x, Obj1Suffix) \/ endswith(x, Obj2Suffix)}}

\* mutant: the prefixes in descending order
RECURSIVE sorted_descending(_)
sorted_descending(S) ==
    IF S = {} THEN <<>>
    ELSE LET greatest == CHOOSE x \in S : \A y \in S \ {x} : LexLess(y, x)
         IN  <<greatest>> \o sorted_descending(S \ {greatest})

\* sorted(prefixes)
RECURSIVE sorted(_)
sorted(S) ==
    IF S = {} THEN <<>>
    ELSE LET least == CHOOSE x \in S : \A y \in S \ {x} : LexLess(x, y)
         IN  <<least>> \o sorted(S \ {least})

\* DataFrame.empty: no column or no row
empty(frame) == NCols(frame) = 0 \/ NRows(frame) = 0

\* pd.DataFrame({"Info": ["No data available"]}).to_excel(writer, "Default", index=False)
DefaultSheet ==
    [name |-> DefaultName,
     cells |-> <<<<Str(<<"I", "n", "f", "o">>)>>,
                 <<Str(<<"N", "o", " ", "d", "a", "t", "a", " ", "a", "v", "a", "i", "l", "a", "b", "l", "e">>)>>>>]

AutoHeader(suffix) == IF suffix = Obj1Suffix THEN <<TimeLabel, XLabel>> ELSE <<TimeLabel>>

\* the ways a sheet of that name can be present: no cells, or a header row
\* and 0 to MaxAutoRows data rows
AutoSheets(prefix, suffix) ==
    {[name |-> prefix \o suffix, cells |-> <<>>]}
    \cup {[name |-> prefix \o suffix,
           cells |-> <<AutoHeader(suffix)>> \o
                     [r \in 1..n |-> [j \in 1..Len(AutoHeader(suffix)) |->
                         Num(100 * r + (IF suffix = Obj1Suffix THEN 0 ELSE 50) + j)]]] :
              n \in 0..MaxAutoRows}

\* nothing or one of the sheets
Optional(sheets) == {<<>>} \cup {<<sh>> : sh \in sheets}

PlainSheetC == [name |-> <<"C">>, cells |-> <<<<TimeLabel>>, <<Num(100)>>>>]

AutoBooks ==
    {a1 \o a2 \o b1 \o b2 \o <<PlainSheetC>> :
        a1 \in Optional(AutoSheets(<<"A">>, Obj1Suffix)),
        a2 \in Optional(AutoSheets(<<"A">>, Obj2Suffix)),
        b1 \in Optional(AutoSheets(<<"B">>, Obj1Suffix)),
        b2 \in Optional(AutoSheets(<<"B">>, Obj2Suffix))}
    \cup
    {<<PlainSheetC>> \o b2 \o b1 \o a2 \o a1 :
        a1 \in Optional(AutoSheets(<<"A">>, Obj1Suffix)),
        a2 \in Optional(AutoSheets(<<"A">>, Obj2Suffix)),
        b1 \in Optional(AutoSheets(<<"B">>, Obj1Suffix)),
        b2 \in Optional(AutoSheets(<<"B">>, Obj2Suffix))}

InitAuto ==
    /\ pc = "auto_main"
    /\ files \in {[p \in Paths |-> IF p = InputPath THEN f ELSE Absent] :
                      f \in {Workbook(b) : b \in AutoBooks} \cup {Absent}}
    /\ AutoIdle
    /\ BoutIdle
    /\ DIIdle
    /\ FmtIdle
    /\ MainIdle
    /\ raised = "none"

\* lines 20-21: the input file does not exist
AutoFileNotFound ==
    /\ pc = "auto_main"
    /\ ~files[InputPath].exists
    /\ raised' = "FileNotFoundError"
    /\ pc' = "raised"
    /\ UNCHANGED <<files, autoVars, boutVars, diVars, fmtVars, mainVars>>

\* lines 23-33: the sheet names are read and the prefixes sorted
AutoPrefixes ==
    /\ pc = "auto_main"
    /\ files[InputPath].exists
    /\ sorted_prefixes' = sorted(Prefixes(files[InputPath].book))
    /\ auto_i' = 1
    /\ pc' = "auto_combine"
    /\ UNCHANGED <<combined_sheets, auto_writer, wrote_sheet,
                   files, raised, boutVars, diVars, fmtVars, mainVars>>

\* the value the loop of lines 36-53 stores for a prefix, <<>> when it
\* stores nothing
CombinedData(book, prefix) ==
    IF {prefix \o Obj1Suffix, prefix \o Obj2Suffix} \subseteq SheetNames(book)
    THEN LET obj1_data == read_excel(SheetNamed(book, prefix \o Obj1Suffix))
             obj2_data == read_excel(SheetNamed(book, prefix \o Obj2Suffix))
         IN  IF ~empty(obj1_data) /\ ~empty(obj2_data) THEN <<concat(obj1_data, obj2_data)>>
             ELSE IF ~empty(obj1_data) THEN <<obj1_data>>
             ELSE IF ~empty(obj2_data) THEN <<obj2_data>>
             ELSE <<>>
    ELSE <<>>

\* lines 36-53, one prefix
AutoCombine ==
    /\ pc = "auto_combine"
    /\ auto_i <= Len(sorted_prefixes)
    /\ LET prefix == sorted_prefixes[auto_i]
           data == CombinedData(files[InputPath].book, prefix)
       IN  combined_sheets' = IF data = <<>> THEN combined_sheets
                              ELSE DictSet(combined_sheets, prefix, data[1])
    /\ auto_i' = auto_i + 1
    /\ UNCHANGED <<pc, sorted_prefixes, auto_writer, wrote_sheet,
                   files, raised, boutVars, diVars, fmtVars, mainVars>>

\* lines 56-57: the writer is opened
AutoOpenWriter ==
    /\ pc = "auto_combine"
    /\ auto_i > Len(sorted_prefixes)
    /\ auto_writer' = <<>>
    /\ wrote_sheet' = FALSE
    /\ auto_i' = 1
    /\ pc' = "auto_write"
    /\ UNCHANGED <<sorted_prefixes, combined_sheets,
                   files, raised, boutVars, diVars, fmtVars, mainVars>>

\* lines 58-61, one prefix
AutoWrite ==
    /\ pc = "auto_write"
    /\ auto_i <= Len(sorted_prefixes)
    /\ LET prefix == sorted_prefixes[auto_i]
       IN  IF DictHas(combined_sheets, prefix) /\ ~empty(DictGet(combined_sheets, prefix))
           THEN /\ auto_writer' = Append(auto_writer,
                                         to_excel(DictGet(combined_sheets, prefix), prefix))
                /\ wrote_sheet' = TRUE
           ELSE UNCHANGED <<auto_writer, wrote_sheet>>
    /\ auto_i' = auto_i + 1
    /\ UNCHANGED <<pc, sorted_prefixes, combined_sheets,
                   files, raised, boutVars, diVars, fmtVars, mainVars>>

\* lines 62-65: the Default sheet when nothing was written, and the save
AutoSave ==
    /\ pc = "auto_write"
    /\ auto_i > Len(sorted_prefixes)
    /\ auto_writer' = IF ~wrote_sheet THEN Append(auto_writer, DefaultSheet) ELSE auto_writer
    /\ files' = [files EXCEPT ![OutPath] = Workbook(auto_writer')]
    /\ pc' = "auto_done"
    /\ UNCHANGED <<sorted_prefixes, combined_sheets, auto_i, wrote_sheet,
                   raised, boutVars, diVars, fmtVars, mainVars>>

NextAuto ==
    \/ AutoFileNotFound
    \/ AutoPrefixes
    \/ AutoCombine
    \/ AutoOpenWriter
    \/ AutoWrite
    \/ AutoSave

SpecAuto == InitAuto /\ [][NextAuto]_vars

(***************************************************************************)
(* Claims.                                                                  *)
(***************************************************************************)
AllNumeric(ts) == \A i \in 1..Len(ts) : ts[i].k = "num"

\* C3: for a numeric series of length n, calculate_bout_durations returns
\* exactly floor(n / 2) durations in order, the k-th (from 0) being
\* ts[2k+1] - ts[2k]; an unpaired last element contributes nothing.
C3_PairDurations ==
    (pc = "done" /\ AllNumeric(timestamps)) =>
        /\ Len(bout_durations) = Len(timestamps) \div 2
        /\ \A k \in 0..(Len(bout_durations) - 1) :
              bout_durations[k + 1] = timestamps[2 * k + 2].v - timestamps[2 * k + 1].v

\* [1, 3, 5] has given [2]: the trailing 5 is dropped
C3_Witness ==
    /\ pc = "done"
    /\ timestamps = <<Num(100), Num(300), Num(500)>>
    /\ bout_durations = <<200>>

RECURSIVE Total(_)
Total(seq) == IF seq = <<>> THEN 0 ELSE Head(seq) + Total(Tail(seq))

Returned == pc = "done" /\ df # NoTable
Left == pc \in {"done", "raised"} /\ df # NoTable

\* C1: total1 and total2 are the sums of the two duration sequences (0 when
\* empty), TET = total1 + total2, DI = (total1 - total2) / TET when TET > 0
\* and DI = 0, with no error, when TET <= 0; totals (10, 0) give DI 1.0 and
\* TET 10, totals (6, 4) give TET 10 and DI 0.2.
C1_Metrics ==
    Returned =>
        LET t1 == Total(summary.obj1_durations)
            t2 == Total(summary.obj2_durations)
        IN  /\ raised = "none"
            /\ locals.obj1_total_time = t1
            /\ locals.obj2_total_time = t2
            /\ locals.total_exploration_time = t1 + t2
            /\ t1 + t2 > 0 =>
                  /\ locals.di.den > 0
                  /\ locals.di.num * (t1 + t2) = (t1 - t2) * locals.di.den
            /\ t1 + t2 <= 0 => locals.di.num = 0 /\ summary.di = 0
            /\ (t1 = 1000 /\ t2 = 0) => summary.di = 100 /\ summary.tet = 1000
            /\ (t1 = 600 /\ t2 = 400) => summary.tet = 1000 /\ summary.di = 20

\* negative durations make TET negative, and DI is 0
C1_Witness ==
    /\ Returned
    /\ \E i \in 1..Len(summary.obj1_durations) : summary.obj1_durations[i] < 0
    /\ locals.total_exploration_time < 0
    /\ summary.di = 0

\* C2: the DI stored in the SubjectSummary lies in [-1, 1], whatever the
\* timestamp series are.
C2_DIWithinUnitInterval ==
    Returned => summary.di >= -100 /\ summary.di <= 100

\* the headers the claim calls filler or blank / missing
FillerHeaders == {EmptyLabel(k) : k \in 1..4} \cup {Str(<<>>), Str(<<" ">>), NaN}
FillerPositions(table) == {i \in 0..(NCols(table) - 1) : table.columns[i + 1] \in FillerHeaders}

\* C9: a table is classified Formatted(splitIndex) iff some header starts
\* with 'empty_' or is blank / missing, splitIndex being the index of the
\* first such header; otherwise it is classified Legacy.
C9_LayoutDetection ==
    Left =>
        /\ has_empty_columns <=> FillerPositions(df) # {}
        /\ FillerPositions(df) # {} =>
              /\ empty_col_start \in FillerPositions(df)
              /\ \A i \in FillerPositions(df) : empty_col_start <= i
        /\ FillerPositions(df) = {} => empty_col_start = None

\* a missing header at index 2, after two ordinary ones and before other fillers
C9_Witness ==
    /\ pc = "done"
    /\ NCols(df) >= 5
    /\ df.columns[3] = NaN
    /\ df.columns[5] = EmptyLabel(1)
    /\ has_empty_columns
    /\ empty_col_start = 2

\* the non-missing cells of column j (0-based)
CellsOfColumn(table, j) ==
    SelectSeq([i \in 1..NRows(table) |-> table.rows[i][j + 1]], LAMBDA c : c.k # "nan")

\* C10: for every table classified Formatted(splitIndex), splitIndex from 0
\* to the last column index, extraction completes without error, object 1 is
\* read from the first column and object 2 from column splitIndex + 4, or is
\* empty when that index is out of bounds.
C10_FormattedExtraction ==
    (Left /\ has_empty_columns) =>
        /\ raised = "none"
        /\ locals.obj1_raw = CellsOfColumn(df, 0)
        /\ locals.obj2_raw =
              IF empty_col_start + 4 < NCols(df)
              THEN CellsOfColumn(df, empty_col_start + 4)
              ELSE <<>>

\* process_worksheet_for_di has been called and has returned or raised
Called == pc \in {"done", "raised"}

\* C11: for every table classified Legacy the sheet is summarised, object 1
\* being read from column index 0 and object 2 from column index 7; with 7 or
\* fewer columns the object-2 series is empty and the object-2 total is 0.
C11_LegacyExtraction ==
    (Called /\ ~has_empty_columns) =>
        /\ pc = "done"
        /\ raised = "none"
        /\ locals.obj1_raw = CellsOfColumn(df, 0)
        /\ NCols(df) > 7 => locals.obj2_raw = CellsOfColumn(df, 7)
        /\ NCols(df) <= 7 =>
              /\ locals.obj2_raw = <<>>
              /\ summary.obj2_durations = <<>>
              /\ summary.obj2_exploration = 0

\* the number a raw value stands for according to the claim, if any
TimestampOf(c) ==
    IF c.k = "nan" THEN <<>>
    ELSE IF c.k = "num" THEN <<c.v>>
    ELSE IF c.s = <<"1", "2", ".", "5", "s">> THEN <<1250>>
    ELSE IF c.s = <<"4", "s", "5">> THEN <<4500>>
    ELSE <<>>

RECURSIVE TimestampSeries(_)
TimestampSeries(raw) ==
    IF raw = <<>> THEN <<>> ELSE TimestampOf(Head(raw)) \o TimestampSeries(Tail(raw))

HasText(table) == \E i \in 1..NRows(table) : table.rows[i][1].k = "str"
ColumnOf(table, j) == [i \in 1..NRows(table) |-> table.rows[i][j + 1]]

\* C12: clean_timestamps keeps the order of the kept values, drops missing
\* values, coerces numbers directly, strips a text of every character that
\* is not a digit or a decimal point and parses the rest ("12.5s" gives
\* 12.5), and a text whose rest is empty or unparsable ("abc", "1.2.3")
\* contributes nothing while the remaining values are processed without error.
C12_CleanTimestamps ==
    (Called /\ NCols(df) = 1 /\ ~has_empty_columns) =>
        /\ pc = "done"
        /\ raised = "none"
        /\ locals.obj1_timestamps = TimestampSeries(ColumnOf(df, 0))

\* "abc", "12.5s", 1 has given 12.5, 1
C12_Witness ==
    /\ pc = "done"
    /\ ColumnOf(df, 0) = <<Str(<<"a", "b", "c">>), Str(<<"1", "2", ".", "5", "s">>), Num(100)>>
    /\ locals.obj1_timestamps = <<1250, 100>>

\* the textual values of the column that contributed no number
Discarded(table) ==
    {c \in {table.rows[i][1] : i \in 1..NRows(table)} : c.k = "str" /\ TimestampOf(c) = <<>>}

\* C13: every value clean_timestamps discards because it cannot be turned
\* into a number, with an empty or with an unparsable stripped string, has a
\* warning logged for it.
C13_DiscardedValuesWarned ==
    (pc = "done" /\ NCols(df) = 1 /\ ~has_empty_columns) =>
        \A c \in Discarded(df) : \E i \in 1..Len(locals.warnings) : locals.warnings[i] = c

Distance(a, b) == IF a >= b THEN a - b ELSE b - a

\* C19: in every returned summary the reported TET equals the sum of the
\* reported 'Obj1 Exploration' and 'Obj2 Exploration' values, all three taken
\* after rounding to 1 decimal place.
C19_ReportedTETIsSum ==
    Returned => summary.tet = summary.obj1_exploration + summary.obj2_exploration

\* C19 as amended: the reported TET is the exact sum of the two unrounded
\* totals rounded to 1 decimal place (within 0.05 of it), so it differs from
\* the sum of the two reported totals by at most 0.1.
C19_ReportedTETIsRoundedSum ==
    Returned =>
        LET t1 == Total(summary.obj1_durations)
            t2 == Total(summary.obj2_durations)
        IN  /\ summary.tet % 10 = 0
            /\ 2 * Distance(summary.tet, t1 + t2) <= 10
            /\ Distance(summary.tet, summary.obj1_exploration + summary.obj2_exploration) <= 10

\* bouts of 0.04 s each: both totals are reported 0.0 and the TET 0.1
C19_Witness ==
    /\ Returned
    /\ summary.obj1_durations = <<4>>
    /\ summary.obj2_durations = <<4>>
    /\ summary.obj1_exploration = 0
    /\ summary.obj2_exploration = 0
    /\ summary.tet = 10

(***************************************************************************)
(* Claims about the formatter.                                              *)
(***************************************************************************)
IsPrefix(a, b) == Len(a) <= Len(b) /\ SubSeq(b, 1, Len(a)) = a

HeaderOf(sheet) == IF sheet.cells = <<>> THEN <<>> ELSE sheet.cells[1]
DataRows(sheet) == IF sheet.cells = <<>> THEN <<>> ELSE Tail(sheet.cells)
SheetHasIds(sheet) == \E j \in 1..Len(HeaderOf(sheet)) : HeaderOf(sheet)[j] = ObjectIdLabel
IdPosition(sheet) == CHOOSE j \in 1..Len(HeaderOf(sheet)) : HeaderOf(sheet)[j] = ObjectIdLabel
IdCellsOf(sheet) == {DataRows(sheet)[r][IdPosition(sheet)] : r \in 1..Len(DataRows(sheet))}
DistinctIds(sheet) == {c.v : c \in {x \in IdCellsOf(sheet) : x.k = "num"}}

\* the grouping step has run over the whole workbook
Grouped == pc \in {"fmt_step3", "fmt_done"} /\ has_object_id

\* the ObjectGroups made from one sheet
GroupsOfSheet(sheet) ==
    {i \in 1..Len(separated_data) : IsPrefix(sheet.name \o ObjInfix, separated_data[i].key)}

StrictlyIncreasing(q) == \A i, j \in 1..Len(q) : i < j => q[i] < q[j]

PartitionsRows(sheet) ==
    LET G == GroupsOfSheet(sheet)
        rows == DataRows(sheet)
    IN  /\ Cardinality(G) = 2
        /\ {separated_data[i].key : i \in G}
              = {sheet.name \o ObjInfix \o IntStr(v \div 100) : v \in DistinctIds(sheet)}
        /\ \A r \in 1..Len(rows) :
              Cardinality({i \in G : \E k \in 1..Len(separated_data[i].value.rows) :
                              /\ separated_data[i].value.index[k] = r - 1
                              /\ separated_data[i].value.rows[k] = rows[r]}) = 1
        /\ Total([k \in 1..Len(separated_data) |->
                    IF k \in G THEN Len(separated_data[k].value.rows) ELSE 0]) = Len(rows)
        /\ \A i \in G : StrictlyIncreasing(separated_data[i].value.index)

\* C4: a sheet whose object_id column has exactly 2 distinct values yields
\* exactly 2 ObjectGroups, keyed <sheet>_obj_<id>, that partition its rows:
\* every row is in exactly one group, the row counts add up, and each group
\* keeps input order.
C4_GroupsPartitionRows ==
    Grouped =>
        \A n \in 1..Len(InputBook) :
            (SheetHasIds(InputBook[n]) /\ Cardinality(DistinctIds(InputBook[n])) = 2)
                => PartitionsRows(InputBook[n])

FormatDone == pc = "fmt_done" /\ fmt_result.success

OutputBook == files[FormattedPath].book
OutputSheet(name) == OutputBook[CHOOSE i \in 1..Len(OutputBook) : OutputBook[i].name = name]

IsBlank(c) == c = NaN \/ c = BlankText
AllBlank(cells) == \A j \in 1..Len(cells) : IsBlank(cells[j])

FillerHeaderRow == [i \in 1..4 |-> EmptyLabel(i)]

\* the two groups of a stem in lexical key order
LeftKey(list) == IF LexLess(list[1], list[2]) THEN list[1] ELSE list[2]
RightKey(list) == IF LexLess(list[1], list[2]) THEN list[2] ELSE list[1]

ColumnOrderOf(stem, list) ==
    LET sheet == OutputSheet(stem)
    IN  IF Len(list) = 2
        THEN LET g1 == DictGet(separated_data, LeftKey(list))
                 g2 == DictGet(separated_data, RightKey(list))
             IN  /\ HeaderOf(sheet) = g1.columns \o FillerHeaderRow \o g2.columns
                 /\ \A r \in 1..Len(DataRows(sheet)) :
                       AllBlank(SubSeq(DataRows(sheet)[r], NCols(g1) + 1, NCols(g1) + 4))
        ELSE Len(list) = 1 =>
                /\ HeaderOf(sheet) = DictGet(separated_data, list[1]).columns
                /\ DataRows(sheet) = DictGet(separated_data, list[1]).rows

\* C5: the combined table of a stem is [object-1 columns] + [exactly 4 empty
\* filler columns] + [object-2 columns] when two groups exist, object 1
\* first whatever the order of the identifiers in the rows; with one group
\* it is that group unchanged, without filler columns.
C5_ColumnOrder ==
    FormatDone =>
        \A n \in 1..Len(sheet_groups) :
            ColumnOrderOf(sheet_groups[n].key, sheet_groups[n].value)

RowAlignmentOf(stem, list) ==
    LET sheet == OutputSheet(stem)
        rows == DataRows(sheet)
        g1 == DictGet(separated_data, LeftKey(list))
        g2 == DictGet(separated_data, RightKey(list))
        width == Len(HeaderOf(sheet))
    IN  /\ Len(rows) = Max(NRows(g1), NRows(g2))
        /\ \A i \in 1..Len(rows) :
              /\ IF i <= NRows(g1)
                 THEN SubSeq(rows[i], 1, NCols(g1)) = g1.rows[i]
                 ELSE AllBlank(SubSeq(rows[i], 1, NCols(g1)))
              /\ IF i <= NRows(g2)
                 THEN SubSeq(rows[i], width - NCols(g2) + 1, width) = g2.rows[i]
                 ELSE AllBlank(SubSeq(rows[i], width - NCols(g2) + 1, width))

\* C6: two merged groups of lengths n1 and n2 are aligned by row position:
\* the combined table has max(n1, n2) rows, row i holds the i-th row of
\* group 1 on the left and the i-th row of group 2 on the right, and the
\* shorter group's cells are blank beyond its length.
C6_RowAlignment ==
    FormatDone =>
        \A n \in 1..Len(sheet_groups) :
            Len(sheet_groups[n].value) = 2 =>
                RowAlignmentOf(sheet_groups[n].key, sheet_groups[n].value)

\* C7: every input sheet with an object_id column yields exactly one
\* CombinedSheet, named by the input sheet, and no other output sheet.
C7_OneSheetPerInputSheet ==
    (pc = "fmt_done" /\ has_object_id) =>
        /\ fmt_result.success
        /\ \A n \in 1..Len(InputBook) :
              SheetHasIds(InputBook[n]) =>
                 Cardinality({i \in 1..Len(OutputBook) : OutputBook[i].name = InputBook[n].name}) = 1
        /\ \A i \in 1..Len(OutputBook) :
              \E n \in 1..Len(InputBook) :
                 SheetHasIds(InputBook[n]) /\ OutputBook[i].name = InputBook[n].name

(***************************************************************************)
(* Claims about main and calculate_discrimination_index (SpecMain).         *)
(***************************************************************************)
MainDone == pc = "main_done" /\ exit_status = 0

\* the summaries the run returned for the sheet of that name
SummariesFor(name) ==
    {k \in 1..Len(di_result.summaries) : di_result.summaries[k].sheet_name = name}

\* C8: in --process-excel mode every input sheet that has cells and no
\* object_id column, whatever the other sheets of the workbook contain, reaches
\* the DI calculation with its original cells and gets a SubjectSummary.
C8_SheetWithoutObjectIdForwarded ==
    (MainDone /\ mode = "process_excel") =>
        \A n \in {m \in 1..Len(InputBook) : InputBook[m].name # ConsolidatedName} :
            (InputBook[n].cells # <<>> /\ ~SheetHasIds(InputBook[n])) =>
                /\ InputBook[n].name \in {sheet_names[i] : i \in 1..Len(sheet_names)}
                /\ SummariesFor(InputBook[n].name) # {}

\* calculate_discrimination_index has returned
DIReturned == pc = "di_done"

\* load_workbook and workbook.save both succeeded
Saved == \E i \in 1..Len(io_log) : io_log[i] = "save"

\* a sheet whose processing raises: it has no cells, so no column 0
Fails(sheet) == sheet.cells = <<>>

SavedBook == files[abspath(output_path)].book
SavedSheets(name) == {i \in 1..Len(SavedBook) : SavedBook[i].name = name}
ConsolidatedSheet == SavedBook[CHOOSE i \in SavedSheets(ConsolidatedName) : TRUE]
\* the rows of the consolidated report that name the sheet
ReportRows(name) ==
    {r \in 1..Len(ConsolidatedSheet.cells) : ConsolidatedSheet.cells[r][1] = Str(name)}

\* C14: when a sheet fails, the run still returns success and saves the
\* workbook; the failed sheet has no SubjectSummary and no block in the
\* consolidated report, every other sheet, also a later one, has its summary
\* and its block, and a summary once collected is never changed.
C14_SheetErrorBoundary ==
    /\ [](( /\ DIReturned
             /\ Saved
             /\ file_for_di = InputPath
             /\ \E n \in 1..Len(InputBook) : Fails(InputBook[n]) ) =>
            /\ di_result.success
            /\ files[abspath(output_path)].readable
            /\ \A n \in {m \in 1..Len(InputBook) : InputBook[m].name # ConsolidatedName} :
                  IF Fails(InputBook[n])
                  THEN /\ SummariesFor(InputBook[n].name) = {}
                       /\ SavedSheets(ConsolidatedName) # {} => ReportRows(InputBook[n].name) = {}
                  ELSE /\ Cardinality(SummariesFor(InputBook[n].name)) = 1
                       /\ SavedSheets(ConsolidatedName) # {}
                       /\ Cardinality(ReportRows(InputBook[n].name)) = 1)
    /\ [][pc = "di_loop" => IsPrefix(all_summaries, all_summaries')]_vars

\* a sheet, the failing sheet, a later sheet: two summaries
C14_Witness ==
    /\ DIReturned
    /\ Saved
    /\ Len(InputBook) = 3
    /\ Fails(InputBook[2])
    /\ Len(di_result.summaries) = 2
    /\ di_result.summaries[2].sheet_name = InputBook[3].name

\* the saved workbook holds a consolidated report
HasReport == DIReturned /\ di_result.success /\ SavedSheets(ConsolidatedName) # {}

Report == ConsolidatedSheet.cells
BlankRow(row) == \A j \in 1..Len(row) : row[j] = NaN

\* the block of summary sm starts at row r of the report
BlockAt(r, sm) ==
    /\ Len(Report) >= r + 4
    /\ Report[r] = <<Str(sm.sheet_name), NaN>>
    /\ Report[r + 1] = <<Str(Obj1ExplorationText), Num(sm.obj1_exploration)>>
    /\ Report[r + 2] = <<Str(Obj2ExplorationText), Num(sm.obj2_exploration)>>
    /\ Report[r + 3] = <<Str(TETText), Num(sm.tet)>>
    /\ Report[r + 4] = <<Str(DIText), Num(sm.di)>>
    /\ Len(Report) >= r + 5 => BlankRow(Report[r + 5])

PositionIn(names, name) == CHOOSE i \in 1..Len(names) : names[i] = name

\* C15: the consolidated report holds one block per successfully processed
\* sheet other than "Consolidated Data", in processing order, and no other
\* block; the k-th block (from 0) starts at row 2 + 6k: the sheet-name row,
\* the rows Obj1 Exploration, Obj2 Exploration, TET, DI, a blank row.
C15_ConsolidatedBlocks ==
    HasReport =>
        LET done == di_result.summaries
        IN  /\ \A k \in 0..(Len(done) - 1) :
                  /\ done[k + 1].sheet_name # ConsolidatedName
                  /\ BlockAt(2 + 6 * k, done[k + 1])
            /\ \A i, j \in 1..Len(done) :
                  i < j => PositionIn(sheet_names, done[i].sheet_name)
                             < PositionIn(sheet_names, done[j].sheet_name)
            /\ Len(Report) <= 1 + 6 * Len(done)

\* C16: every run that saves an output workbook leaves in it exactly one
\* "Consolidated Data" sheet, built by this run (header row and the blocks
\* of this run's summaries only), also when no sheet yields a summary.
C16_ReportAlwaysBuilt ==
    (DIReturned /\ di_result.success) =>
        /\ Cardinality(SavedSheets(ConsolidatedName)) = 1
        /\ Report[1] = <<Str(SheetNameText), Str(ValuesText)>>
        /\ Len(Report) <= 1 + 6 * Len(di_result.summaries)

Events(e) == {i \in 1..Len(io_log) : io_log[i] = e}

SourceBook == files[file_for_di].book
SourceSheet(name) == SourceBook[CHOOSE i \in 1..Len(SourceBook) : SourceBook[i].name = name]
SavedSheet(name) == SavedBook[CHOOSE i \in SavedSheets(name) : TRUE]

\* the saved sheet holds the summary table of sm, two columns to the right of
\* the data of the sheet as it was read
SummaryCellsPresent(sm) ==
    LET col == Len(SourceSheet(sm.sheet_name).cells[1]) + 2
        cells == SavedSheet(sm.sheet_name).cells
    IN  /\ Len(cells) >= 13
        /\ cells[10][col] = Str(Obj1ExplorationText)
        /\ cells[10][col + 1] = Num(sm.obj1_exploration)
        /\ cells[13][col] = Str(DIText)
        /\ cells[13][col + 1] = Num(sm.di)

\* C17: a run opens the workbook once and saves it exactly once, as the last
\* step, after the last sheet was handled and the consolidated sheet built;
\* nothing is saved between sheets, and the saved workbook holds the summary
\* cells of every summarised sheet, also when another sheet failed.
C17_SavedOnceAtEnd ==
    /\ []((DIReturned /\ Events("load_failed") = {} /\ Events("save_failed") = {}) =>
            /\ io_log = <<"load", "save">>
            /\ di_result.success
            /\ SavedBook = workbook
            /\ di_result.summaries # <<>> => SavedSheets(ConsolidatedName) # {}
            /\ abspath(file_for_di) # abspath(output_path) =>
                  \A k \in 1..Len(di_result.summaries) :
                      SummaryCellsPresent(di_result.summaries[k]))
    /\ [][(pc = "di_loop" /\ pc' = "di_loop") => (files' = files /\ io_log' = io_log)]_vars

\* a summarised sheet, then a failing one: the summary cells were saved
C17_Witness ==
    /\ DIReturned
    /\ io_log = <<"load", "save">>
    /\ Len(SourceBook) = 3
    /\ Fails(SourceBook[2])
    /\ Len(di_result.summaries) = 2
    /\ SummaryCellsPresent(di_result.summaries[1])

\* the workbook could not be opened, or the final save failed
FatalIOFailure == Events("load_failed") # {} \/ Events("save_failed") # {}

\* C18: when the workbook cannot be opened or the final save fails,
\* calculate_discrimination_index returns failure with no output path and no
\* summaries, and main, in each of the modes --di-only, --process-excel and
\* --full-pipeline, exits with status 1 without printing the success message.
C18_FatalIOAborts ==
    FatalIOFailure =>
        /\ pc \in {"di_done", "main_done"}
        /\ di_result = [success |-> FALSE, output_path |-> "None", summaries |-> <<>>]
        /\ ~printed_success
        /\ exit_status # 0
        /\ pc = "main_done" => exit_status = 1

\* the save failed at the end of a full pipeline that had summaries
C18_Witness ==
    /\ pc = "main_done"
    /\ mode = "full_pipeline"
    /\ Events("save_failed") # {}
    /\ all_summaries # <<>>
    /\ exit_status = 1

\* the table calculate_discrimination_index reads from the sheet of that name
TableRead(name) == read_excel_no_header(SourceSheet(name))

\* the sheet of summary sm is read as Formatted with the split after the w1
\* columns of the object-1 block, and object 2 comes from the first column
\* of the object-2 block
ReadAsCombined(sm, w1) ==
    LET table == TableRead(sm.sheet_name)
    IN  /\ IsFormatted(table)
        /\ EmptyColStart(table) = w1
        /\ sm.obj2_durations =
              calculate_bout_durations(AsCells(clean_timestamps(ColumnValues(table, w1 + 4))))

\* C20: every combined sheet the formatter wrote from two groups and that
\* calculate_discrimination_index then processed is classified Formatted with
\* splitIndex equal to the number of columns of the object-1 block, and the
\* object-2 series is read from the first column of the object-2 block.
C20_CombinedSheetReadAsFormatted ==
    (pc = "di_loop" /\ fmt_result.success /\ file_for_di = fmt_result.output_path) =>
        \A k \in 1..Len(all_summaries) :
            LET stem == all_summaries[k].sheet_name
                list == DictGet(sheet_groups, stem)
            IN  Len(list) = 2 =>
                    ReadAsCombined(all_summaries[k],
                                   NCols(DictGet(separated_data, LeftKey(list))))

\* the table without its first row, the header row of the sheet
WithoutHeader(table) == [columns |-> table.columns, rows |-> Tail(table.rows)]

BoutsOf(raw) == calculate_bout_durations(AsCells(clean_timestamps(raw)))

\* C21: when calculate_discrimination_index processes a sheet, the header cell
\* of a timestamp column contributes no element to the column's series,
\* whatever its text: the bouts of both objects are those of the data rows
\* alone.
C21_HeaderNotInSeries ==
    pc = "di_loop" =>
        \A k \in 1..Len(all_summaries) :
            LET body == WithoutHeader(TableRead(all_summaries[k].sheet_name))
            IN  /\ all_summaries[k].obj1_durations = BoutsOf(Obj1Raw(body))
                /\ all_summaries[k].obj2_durations = BoutsOf(Obj2Raw(body))

\* the four reported values of a summary
Reported(sm) == <<sm.obj1_exploration, sm.obj2_exploration, sm.tet, sm.di>>

\* the second run on the workbook has ended with success
RerunDone == first_run.done /\ pc = "main_done" /\ exit_status = 0

\* C22: a run of calculate_discrimination_index on the workbook an earlier
\* run wrote returns, for every data sheet, the same Obj1 Exploration, Obj2
\* Exploration, TET and DI as the earlier run, whatever the width of the
\* sheet: the cells written back are never read as timestamps.
C22_RerunSameSummaries ==
    RerunDone =>
        /\ Len(di_result.summaries) = Len(first_run.summaries)
        /\ \A k \in 1..Len(di_result.summaries) :
              /\ di_result.summaries[k].sheet_name = first_run.summaries[k].sheet_name
              /\ Reported(di_result.summaries[k]) = Reported(first_run.summaries[k])

\* the workbook the formatting step was given
Unformatted == IF mode = "process_excel" THEN InputPath ELSE input_path

\* the DI step of a --process-excel or --full-pipeline run has its input file
DIStepEntered ==
    /\ mode \in {"process_excel", "full_pipeline"}
    /\ pc \in {"di_load", "di_loop", "di_done", "main_done"}

\* C23: in --process-excel and --full-pipeline mode the DI step reads the
\* formatted workbook if and only if formatting reported success, otherwise
\* the unformatted workbook, and after a run that prints the completion
\* message the final output file exists, whatever path --output names, also
\* one that names the intermediate formatted workbook in another spelling.
C23_FinalOutputKept ==
    DIStepEntered =>
        /\ file_for_di = IF fmt_result.success THEN fmt_result.output_path ELSE Unformatted
        /\ fmt_result.success => file_for_di # Unformatted
        /\ printed_success => files[abspath(di_result.output_path)].exists

(***************************************************************************)
(* Claims about auto_DI_format.                                             *)
(***************************************************************************)
AutoIn == files[InputPath].book
AutoOut == files[OutPath].book
AutoDone == pc = "auto_done"

\* the sheet has a header row and at least one data row
HasData(sheet) == Len(sheet.cells) >= 2 /\ Len(sheet.cells[1]) >= 1

Obj1SheetOf(prefix) == SheetNamed(AutoIn, prefix \o Obj1Suffix)
Obj2SheetOf(prefix) == SheetNamed(AutoIn, prefix \o Obj2Suffix)

\* both sheets of the prefix exist and one of them has data
Paired(prefix) ==
    /\ {prefix \o Obj1Suffix, prefix \o Obj2Suffix} \subseteq SheetNames(AutoIn)
    /\ HasData(Obj1SheetOf(prefix)) \/ HasData(Obj2SheetOf(prefix))

\* data row i of the sheet, blank when the sheet has fewer rows
DataRowOrBlank(sheet, i) ==
    IF i + 1 <= Len(sheet.cells) THEN sheet.cells[i + 1]
    ELSE [j \in 1..Len(sheet.cells[1]) |-> NaN]

\* the Obj1 columns followed directly by the Obj2 columns, or the sheet that
\* has data alone
SideBySide(s1, s2) ==
    IF HasData(s1) /\ HasData(s2)
    THEN <<s1.cells[1] \o s2.cells[1]>> \o
         [i \in 1..(Max(Len(s1.cells), Len(s2.cells)) - 1) |->
             DataRowOrBlank(s1, i) \o DataRowOrBlank(s2, i)]
    ELSE IF HasData(s1) THEN s1.cells ELSE s2.cells

\* C24: the output workbook of auto_DI_format holds a sheet <prefix> exactly
\* when the input has both <prefix>_Obj1 and <prefix>_Obj2 and one of them
\* has data; the sheet holds the Obj1 columns followed directly by the Obj2
\* columns (or the one with data alone); the sheets are in sorted prefix
\* order; a single Default sheet is written exactly when no prefix sheet is,
\* so the workbook always has a sheet.
C24_PairedSheetsCombined ==
    AutoDone =>
        /\ \A p \in Prefixes(AutoIn) : p \in SheetNames(AutoOut) <=> Paired(p)
        /\ \A i \in 1..Len(AutoOut) :
              \/ /\ AutoOut[i].name \in Prefixes(AutoIn)
                 /\ AutoOut[i].cells = SideBySide(Obj1SheetOf(AutoOut[i].name),
                                                  Obj2SheetOf(AutoOut[i].name))
              \/ /\ AutoOut[i] = DefaultSheet
                 /\ Len(AutoOut) = 1
        /\ \A i, j \in 1..Len(AutoOut) : i < j => LexLess(AutoOut[i].name, AutoOut[j].name)
        /\ DefaultName \in SheetNames(AutoOut) <=> \A p \in Prefixes(AutoIn) : ~Paired(p)
        /\ Len(AutoOut) >= 1

\* B listed before A in the input, A with both sheets filled to different
\* lengths, B with data in its Obj2 sheet only: the output is A, then B
C24_Witness ==
    /\ AutoDone
    /\ AutoIn[1] = PlainSheetC
    /\ Len(AutoIn) = 5
    /\ Len(Obj1SheetOf(<<"A">>).cells) = 3
    /\ Len(Obj2SheetOf(<<"A">>).cells) = 2
    /\ Obj1SheetOf(<<"B">>).cells = <<>>
    /\ HasData(Obj2SheetOf(<<"B">>))
    /\ Len(AutoOut) = 2
    /\ AutoOut[1].name = <<"A">>
    /\ Len(AutoOut[1].cells[1]) = 3
    /\ AutoOut[2].name = <<"B">>

====
